---- MODULE Spec2Model ----
(***************************************************************************)
(* Model of the crawl orchestration of rufus (src/rufus/client.py) with    *)
(* the judgment folding of src/rufus/llm_handler.py.                       *)
(*                                                                         *)
(* One behaviour is one call of RufusClient.intelligent_scrape (entered    *)
(* directly, or through RufusClient.scrape): the optional site-mapping     *)
(* phase, then the traversal loop of _perform_intelligent_scrape, one      *)
(* action per step of an iteration (dequeue, fetch, analyse, expand), then *)
(* the return.  The page fetcher and the language-model calls are          *)
(* external: their outcomes are drawn nondeterministically.                *)
(***************************************************************************)
EXTENDS Integers, Sequences, FiniteSets, TLC

\* ------------------------------------------------------------------ bounds
\* largest max_pages / max_depth a caller passes
MaxPagesArg == 3
MaxDepthArg == 2
\* longest new_topics list one analyzer answer holds
MaxTopics == 2
\* longest document list handed to process_documents
MaxDocs == 3
\* longest document list handed to cluster_documents
MaxClusterDocs == 5
\* largest number in an answer to the instruction analysis
MaxRecommended == 60
\* most clusters the analyzer proposes in one answer
MaxProposed == 6
\* largest rate_limit of a Crawler, latest time on the clock, and most
\* requests one Crawler is followed through
MaxRateLimit == 2
MaxClock == 6
MaxRequests == 4
\* most fetch_page calls one Crawler is followed through
MaxFetches == 3
\* longest document list handed to an exporter
MaxExportDocs == 2
\* longest URL list handed to batch_scrape
MaxBatch == 3
\* most summaries and concepts a memory is followed to, and the most new
\* concepts one judgment brings
MaxSummaries == 5
MaxConcepts == 21
ConceptBlock == 10

\* ------------------------------------------------------------------- URLs
\* A URL as urlparse sees it: host, path, the names of its query parameters,
\* fragment.
Url(h, p, q, f) == [host |-> h, path |-> p, query |-> q, frag |-> f]

A == Url("site", "a", {}, "")
B == Url("site", "b", {}, "")
C == Url("site", "c", {}, "")
D == Url("site", "d", {}, "")
\* B with a fragment, B with a tracking parameter, a page of another host
Bf == Url("site", "b", {}, "top")
Bu == Url("site", "b", {"utm_source"}, "")
X == Url("other", "x", {}, "")
\* the site's address without a path ("http://site"), and a page of a host
\* whose name begins with the site's ("http://site.evil/x")
Root == Url("site", "", {}, "")
Evil == Url("site.evil", "x", {}, "")
NoUrl == Url("", "", {}, "")

tracking_params ==
    {"utm_source", "utm_medium", "utm_campaign", "utm_term", "utm_content",
     "fbclid", "gclid", "dclid", "zanpid", "msclkid"}

normalize_url(u) ==
    [host |-> u.host, path |-> u.path,
     query |-> u.query \ tracking_params, frag |-> ""]

is_same_domain(u1, u2) == u1.host = u2.host

\* the host name h begins with the characters of the host name prefix
HostStartsWith(h, prefix) == h = prefix \/ (prefix = "site" /\ h = "site.evil")

\* link_url.startswith(url): the link spells the seed and then more.  A seed
\* that ends with its host name is continued by the rest of a longer host
\* name as well as by a path.
StartsWith(link, seed) ==
    IF seed.path = "" /\ seed.query = {} /\ seed.frag = ""
    THEN HostStartsWith(link.host, seed.host)
    ELSE /\ link.host = seed.host
         /\ link.path = seed.path
         /\ seed.frag = ""
         /\ seed.query \subseteq link.query
         /\ (seed.query # {} => link.query = seed.query)

\* The site being crawled: the outbound links of each page, in page order.
\* A fragment or a tracking parameter does not change the page served.
SiteLinks(u) ==
    CASE u.host = "site" /\ u.path = "" -> <<A, Evil, X>>
      [] u.host = "site" /\ u.path = "a" -> <<B, C, Bf, X>>
      [] u.host = "site" /\ u.path = "b" -> <<D, A>>
      [] u.host = "site" /\ u.path = "c" -> <<Bu, B, Bu>>
      [] OTHER -> <<>>

\* A URL the link analyzer may name although the page does not link to it.
Invented(u) ==
    CASE u.host = "site" /\ u.path = "b" -> <<C>>
      [] OTHER -> <<>>

\* ---------------------------------------------------------------- helpers
Range(s) == {s[i] : i \in 1..Len(s)}

Min(a, b) == IF a < b THEN a ELSE b

SeqsUpTo(S, n) == UNION {[1..k -> S] : k \in 0..n}

\* the lists made of some of the elements of s, in the order of s
RECURSIVE SubLists(_)
SubLists(s) ==
    IF s = <<>> THEN {<<>>}
    ELSE LET r == SubLists(Tail(s))
         IN r \cup {<<Head(s)>> \o t : t \in r}

\* list(dict.fromkeys(s)): first occurrences, in order
RECURSIVE Dedup(_)
Dedup(s) ==
    IF s = <<>> THEN <<>>
    ELSE LET r == Dedup(SubSeq(s, 1, Len(s) - 1))
             x == s[Len(s)]
         IN IF x \in Range(r) THEN r ELSE Append(r, x)

\* dict.get(key, default)
Get(d, k, default) == IF k \in DOMAIN d THEN d[k] ELSE default

\* d[k] = v
Put(d, k, v) == [x \in DOMAIN d \cup {k} |-> IF x = k THEN v ELSE d[x]]

\* a queue served from its newest end
PopLast(queue) ==
    [url |-> queue[Len(queue)], rest |-> SubSeq(queue, 1, Len(queue) - 1)]

\* links_to_visit.pop(0): the first element, and the list without it
Pop(queue) == [url |-> Head(queue), rest |-> Tail(queue)]

\* visited.add(current_url)
MarkVisitedForgets(visited, url) == visited

MarkVisited(visited, url) == visited \cup {url}

\* a loop that appends every link
RECURSIVE EnqueueLinksUnchecked(_, _, _, _)
EnqueueLinksUnchecked(links, visited, st, d) ==
    IF links = <<>> THEN st
    ELSE EnqueueLinksUnchecked(Tail(links), visited,
                               [queue |-> Append(st.queue, Head(links)),
                                depth |-> Put(st.depth, Head(links), d + 1)], d)

\* The loop that adds links to a queue, shared by both traversals:
\*   for link in links:
\*       if link not in visited and link not in links_to_visit:
\*           links_to_visit.append(link); pages_by_depth[link] = depth + 1
\* st = [queue, depth]
RECURSIVE EnqueueLinks(_, _, _, _)
EnqueueLinks(links, visited, st, d) ==
    IF links = <<>> THEN st
    ELSE LET link == Head(links)
             st2 == IF link \notin visited /\ link \notin Range(st.queue)
                    THEN [queue |-> Append(st.queue, link),
                          depth |-> Put(st.depth, link, d + 1)]
                    ELSE st
         IN EnqueueLinks(Tail(links), visited, st2, d)

\* ------------------------------------------------- the analyzer's answers
\* One answer of the language model to a judgment request.  kind:
\*   "api_error"  the API call raises
\*   "bad_json"   the text is no JSON at all
\*   "fenced"     the JSON judgment wrapped in a ```json fence
\*   "not_dict"   valid JSON that is no object (a list)
\*   "ok"         a JSON object
\* new_concepts and contradictions are JSON values: a list (iterable, with
\* its items) or a truthy scalar such as 7 (not iterable).
Concepts == {"c1", "c2"}
Unhashable == "<unhashable>"

JsonList(items) == [iterable |-> TRUE, items |-> items]
JsonScalar == [iterable |-> FALSE, items |-> <<>>]
Truthy(v) == ~v.iterable \/ v.items # <<>>

Answer(k, score, summary, concepts, contradictions) ==
    [kind |-> k, relevance_score |-> score, summary |-> summary,
     new_concepts |-> concepts, contradictions |-> contradictions]

FailedAnswers ==
    {Answer(k, 0, "", JsonList(<<>>), JsonList(<<>>)) :
        k \in {"api_error", "bad_json", "not_dict"}}

\* judgments that carry nothing for the memory
PlainAnswers ==
    FailedAnswers \cup
    {Answer(k, s, "", JsonList(<<>>), JsonList(<<>>)) :
        k \in {"ok", "fenced"}, s \in {0, 7}} \cup
    {Answer("ok", -1, "", JsonList(<<>>), JsonList(<<>>))}

\* a relevant judgment, or a failed call
FewAnswers ==
    {Answer("ok", 7, "", JsonList(<<>>), JsonList(<<>>)),
     Answer("api_error", 0, "", JsonList(<<>>), JsonList(<<>>))}

\* judgments with summaries, concepts and contradictions, well-formed or not
RichAnswers ==
    FailedAnswers \cup
    {Answer("ok", s, sm, nc, ct) :
        s \in {0, 7}, sm \in {"", "sum"},
        nc \in {JsonList(<<>>), JsonList(<<"c1">>), JsonList(<<"c2", "c1">>),
                JsonList(<<"c2", Unhashable>>), JsonScalar},
        ct \in {JsonList(<<>>), JsonList(<<"x">>), JsonScalar}}

\* ----------------------------------------------------------------- memory
EmptyMemory ==
    [summaries |-> <<>>, key_concepts |-> {}, entities |-> {},
     contradictions |-> <<>>]

\* the fallback judgment both extractors return
ZeroContent == [raised |-> FALSE, is_dict |-> TRUE, relevance_score |-> 0, summary |-> ""]
\* the extractor raised (RufusError)
RaisedContent == [raised |-> TRUE, is_dict |-> TRUE, relevance_score |-> 0, summary |-> ""]
ContentOf(ans) ==
    [raised |-> FALSE, is_dict |-> TRUE,
     relevance_score |-> ans.relevance_score, summary |-> ans.summary]

\* set.update(items): adds item by item, raises TypeError at the first
\* unhashable one
RECURSIVE SetUpdate(_, _)
SetUpdate(set, items) ==
    IF items = <<>> THEN [set |-> set, raised |-> FALSE]
    ELSE IF Head(items) = Unhashable THEN [set |-> set, raised |-> TRUE]
    ELSE SetUpdate(set \cup {Head(items)}, Tail(items))

\* LLMHandler.extract_with_memory: the judgment returned, the memory
\* afterwards, and whether an except clause was taken.  Every exception inside
\* the try block, the ones raised while folding included, ends in the fallback
\* judgment.
\* a variant whose memory holds the latest judgment only
extract_with_memory_latest_only(ans, memory) ==
    IF ans.kind # "ok" \/ ~ans.new_concepts.iterable \/ ~ans.contradictions.iterable
    THEN [content |-> ZeroContent, memory |-> memory, failed |-> TRUE]
    ELSE [content |-> ContentOf(ans),
          memory |-> [memory EXCEPT
                        !.summaries = IF ans.summary # "" THEN <<ans.summary>> ELSE <<>>,
                        !.key_concepts = Range(ans.new_concepts.items) \ {Unhashable},
                        !.contradictions = ans.contradictions.items],
          failed |-> FALSE]

\* a variant that folds only the judgments of relevant pages
extract_with_memory_relevant_only(ans, memory) ==
    IF ans.kind = "ok" /\ ans.relevance_score > 0
         /\ ans.new_concepts.iterable /\ Unhashable \notin Range(ans.new_concepts.items)
         /\ ans.contradictions.iterable
    THEN [content |-> ContentOf(ans),
          memory |-> [memory EXCEPT
                        !.summaries = IF ans.summary # "" THEN Append(@, ans.summary) ELSE @,
                        !.key_concepts = @ \cup Range(ans.new_concepts.items),
                        !.contradictions = @ \o ans.contradictions.items],
          failed |-> FALSE]
    ELSE [content |-> IF ans.kind = "ok" THEN ContentOf(ans) ELSE ZeroContent,
          memory |-> memory,
          failed |-> ans.kind # "ok" \/ ~ans.new_concepts.iterable
                     \/ Unhashable \in Range(ans.new_concepts.items)
                     \/ ~ans.contradictions.iterable]

extract_with_memory(ans, memory) ==
    IF ans.kind \in {"api_error", "bad_json", "fenced", "not_dict"}
    THEN [content |-> ZeroContent, memory |-> memory, failed |-> TRUE]
    ELSE
      LET m1 == IF ans.summary # ""
                THEN [memory EXCEPT !.summaries = Append(@, ans.summary)]
                ELSE memory
          up == IF ~Truthy(ans.new_concepts)
                THEN [set |-> m1.key_concepts, raised |-> FALSE]
                ELSE IF ~ans.new_concepts.iterable
                THEN [set |-> m1.key_concepts, raised |-> TRUE]
                ELSE SetUpdate(m1.key_concepts, ans.new_concepts.items)
          m2 == [m1 EXCEPT !.key_concepts = up.set]
          m3 == [m2 EXCEPT !.contradictions = @ \o ans.contradictions.items]
      IN IF up.raised
         THEN [content |-> ZeroContent, memory |-> m2, failed |-> TRUE]
         ELSE IF ~Truthy(ans.contradictions)
         THEN [content |-> ContentOf(ans), memory |-> m2, failed |-> FALSE]
         ELSE IF ~ans.contradictions.iterable
         THEN [content |-> ZeroContent, memory |-> m2, failed |-> TRUE]
         ELSE [content |-> ContentOf(ans), memory |-> m3, failed |-> FALSE]

\* the summaries and the concepts a judgment request repeats
summary_window == 3
concept_cap == 20

\* the subsets of S with k elements
RECURSIVE KSubsets(_, _)
KSubsets(S, k) ==
    IF k = 0 THEN {{}}
    ELSE LET smaller == KSubsets(S, k - 1)
         IN {U \in {T \cup {x} : T \in smaller, x \in S} : Cardinality(U) = k}

\* a request that repeats the oldest summaries
OldestSummaries(memory) ==
    SubSeq(memory.summaries, 1, Min(summary_window, Len(memory.summaries)))

\* memory["summaries"][-3:]
memory_context(memory) ==
    LET n == Len(memory.summaries)
    IN SubSeq(memory.summaries, IF n > summary_window THEN n - summary_window + 1 ELSE 1, n)

\* list(memory["key_concepts"])[:20]: the first 20 in the set's iteration
\* order, which may be any; the sets of concepts the request can name
concepts_context(memory) ==
    LET n == Cardinality(memory.key_concepts)
    IN IF n <= concept_cap
       THEN {memory.key_concepts}
       ELSE {memory.key_concepts \ dropped :
                dropped \in KSubsets(memory.key_concepts, n - concept_cap)}

\* LLMHandler.extract_relevant_content: an API error is raised as RufusError,
\* unparseable text is parsed again without its fence and falls back to the
\* zero judgment, parsed JSON is returned as it is.
extract_relevant_content(ans) ==
    CASE ans.kind = "api_error" -> RaisedContent
      [] ans.kind = "bad_json" -> ZeroContent
      [] ans.kind = "not_dict" -> [ZeroContent EXCEPT !.is_dict = FALSE]
      [] OTHER -> ContentOf(ans)

\* the analysis failed: the API call raised or the text could not be parsed
AnalysisFailed(ans) == ans.kind \in {"api_error", "bad_json"}

\* ------------------------------------------------------- link prioritizer
Topics == {"t1", "t2"}

\* One answer of the language model to a link-prioritization request.
LinkAnswer(k, links, topics) == [kind |-> k, links |-> links, new_topics |-> topics]

FailedLinkAnswers ==
    {LinkAnswer(k, <<>>, <<>>) : k \in {"api_error", "bad_json", "not_dict"}}

\* the answers that pick their links among picks and their topics among batches
LinkAnswers(picks, batches) ==
    FailedLinkAnswers \cup {LinkAnswer("ok", l, t) : l \in picks, t \in batches}

\* any selection of the page's links and of the URLs invented for it
AnyPicks(u) == SubLists(SiteLinks(u) \o Invented(u))
\* nothing, or the page's first link
FirstPicks(u) == {<<>>, SubSeq(SiteLinks(u), 1, Min(1, Len(SiteLinks(u))))}

NoTopics == {<<>>}
AnyTopics == SeqsUpTo(Topics, MaxTopics)

max_links == 10

\* LLMHandler.enhanced_identify_relevant_links: a page without links is
\* answered without asking; a failed call or an answer that is no object
\* gives the empty result; the links are cut to max_links.
enhanced_identify_relevant_links(page_links, ans) ==
    IF page_links = <<>> \/ ans.kind # "ok"
    THEN [links |-> <<>>, new_topics |-> <<>>]
    ELSE [links |-> SubSeq(ans.links, 1, Min(Len(ans.links), max_links)),
          new_topics |-> ans.new_topics]

\* --------------------------------------------------- instruction analysis
\* a clamp that leaves out the upper bound
ClampBelow(v, lo, hi) == IF v > lo THEN v ELSE Min(lo, hi)

\* min(max(v, lo), hi)
Clamp(v, lo, hi) == Min(IF v > lo THEN v ELSE lo, hi)

\* One answer to the instruction-analysis request of scrape: the call
\* succeeded and gave a JSON object, which keys it has, and their values.
\* The values are numbers unless stated: depth_converts and pages_converts
\* tell that int() accepts the value.
InstrAnswer(ok, hd, d, hp, p) ==
    [ok |-> ok, has_depth |-> hd, depth |-> d, has_pages |-> hp, pages |-> p,
     depth_converts |-> TRUE, pages_converts |-> TRUE]

InstrAnswers ==
    {InstrAnswer(FALSE, FALSE, 0, FALSE, 0),
     InstrAnswer(TRUE, TRUE, 0, TRUE, 1),
     InstrAnswer(TRUE, TRUE, 2, FALSE, 0)}

\* RufusClient._analyze_instruction: the recommendations, and whether the
\* analyzer was asked.
\* instruction_is_short: the instruction is empty or shorter than 20 characters.
\* int() of a value that is no number raises inside the try block: what was
\* written before stays, the rest keeps its default.
analyze_instruction(instruction_is_short, ans) ==
    IF instruction_is_short
    THEN [recommended_depth |-> 2, recommended_pages |-> 10, consulted |-> FALSE]
    ELSE IF ~ans.ok
    THEN [recommended_depth |-> 3, recommended_pages |-> 15, consulted |-> TRUE]
    ELSE IF ans.has_depth /\ ~ans.depth_converts
    THEN [recommended_depth |-> 3, recommended_pages |-> 15, consulted |-> TRUE]
    ELSE [recommended_depth |-> IF ans.has_depth THEN Clamp(ans.depth, 1, 5) ELSE 3,
          recommended_pages |-> IF ans.has_pages /\ ans.pages_converts
                                THEN Clamp(ans.pages, 5, 50) ELSE 15,
          consulted |-> TRUE]

\* ------------------------------------------------------ document processor
EmptyDict == [k \in {} |-> 0]

\* DocumentProcessor.create_document
create_document(url, content) ==
    [source_url |-> url, content |-> content, timestamp |-> "created"]

\* the sort key of process_documents
RelevanceKey(doc) == Get(Get(doc, "content", EmptyDict), "relevance_score", 0)

\* sorted(documents, key=RelevanceKey, reverse=True): Python's sort is stable,
\* also in reverse, so document j comes before document i when its key is
\* higher, or equal with j before i in the input
ComesBeforeTiesReversed(docs, j, i) ==
    \/ RelevanceKey(docs[j]) > RelevanceKey(docs[i])
    \/ RelevanceKey(docs[j]) = RelevanceKey(docs[i]) /\ j > i

ComesBefore(docs, j, i) ==
    \/ RelevanceKey(docs[j]) > RelevanceKey(docs[i])
    \/ RelevanceKey(docs[j]) = RelevanceKey(docs[i]) /\ j < i

\* the place of document i in the sorted list
SortedPlace(docs, i) ==
    1 + Cardinality({j \in 1..Len(docs) : ComesBefore(docs, j, i)})

sorted_docs(documents_arg) ==
    [k \in 1..Len(documents_arg) |->
        documents_arg[CHOOSE i \in 1..Len(documents_arg) :
                          SortedPlace(documents_arg, i) = k]]

\* a document with no relevance is skipped
SkipsNothing(doc) == FALSE

SkipsDocument(doc) == RelevanceKey(doc) = 0

\* the clean structure of one processed document
processed_doc(doc) ==
    LET content == Get(doc, "content", EmptyDict)
    IN [url |-> Get(doc, "source_url", NoUrl),
        title |-> Get(content, "summary", ""),
        sections |-> Get(content, "relevant_sections", <<>>),
        key_points |-> Get(content, "key_points", <<>>),
        relevance_score |-> Get(content, "relevance_score", 0),
        summary |-> Get(content, "summary", ""),
        timestamp |-> Get(doc, "timestamp", "processed")]

\* the loop over the sorted documents
CleanDocs(docs) ==
    LET kept == SelectSeq(docs, LAMBDA doc : ~SkipsDocument(doc))
    IN [k \in 1..Len(kept) |-> processed_doc(kept[k])]

\* DocumentProcessor.process_documents
process_documents(documents_arg) == CleanDocs(sorted_docs(documents_arg))

\* One answer of the language model to a cluster request.  kind:
\*   "no_key"     no API key on the processor or in the environment
\*   "api_error"  the API call raises
\*   "bad_json"   the text is no JSON
\*   "not_dict"   valid JSON that is no object
\*   "ok"         a JSON object; clusters is its "clusters" list
\* One entry of that list may lack its name, and its document_indices may be
\* a list of integers or a value that cannot be iterated.
ClusterEntry(has_name, name, indices) ==
    [has_name |-> has_name, name |-> name, document_indices |-> indices]

ClusterAnswer(k, entries) == [kind |-> k, clusters |-> entries]

\* the index lists of an answer about n documents: in range or not, repeated
\* or not
IndexLists(n) ==
    LET I == (-1)..n
    IN {<<>>} \cup {<<i>> : i \in I} \cup {<<i, j>> : i, j \in I}

ClusterEntries(n) ==
    {ClusterEntry(TRUE, nm, JsonList(l)) : nm \in {"n1", "n2"}, l \in IndexLists(n)}
    \cup {ClusterEntry(FALSE, "", JsonList(<<>>)), ClusterEntry(TRUE, "n1", JsonScalar)}

ClusterAnswers(n) ==
    {ClusterAnswer(k, <<>>) : k \in {"no_key", "api_error", "bad_json", "not_dict"}}
    \cup {ClusterAnswer("ok", e) : e \in SeqsUpTo(ClusterEntries(n), 2)}

\* a fallback that returns no cluster
NoFallback(docs) == EmptyDict

\* the fallback: a single cluster with all documents
AllDocuments(docs) == [k \in {"All Documents"} |-> docs]

\* for idx in document_indices: the documents whose index is in range
RECURSIVE AppendIndexed(_, _, _)
AppendIndexed(members, indices, docs) ==
    IF indices = <<>> THEN members
    ELSE LET idx == Head(indices)
         IN AppendIndexed(IF 0 <= idx /\ idx < Len(docs)
                          THEN Append(members, docs[idx + 1])
                          ELSE members,
                          Tail(indices), docs)

\* for cluster in clusters: the name's list is started anew and filled; a
\* cluster without a name, or indices that cannot be iterated, raise
RECURSIVE Organize(_, _, _)
Organize(entries, clustered_docs, docs) ==
    IF entries = <<>> THEN [raised |-> FALSE, clustered_docs |-> clustered_docs]
    ELSE LET cluster == Head(entries)
         IN IF ~cluster.has_name \/ ~cluster.document_indices.iterable
            THEN [raised |-> TRUE, clustered_docs |-> clustered_docs]
            ELSE Organize(Tail(entries),
                          Put(clustered_docs, cluster.name,
                              AppendIndexed(<<>>, cluster.document_indices.items, docs)),
                          docs)

\* DocumentProcessor.cluster_documents
cluster_documents(docs, ans) ==
    IF docs = <<>> THEN EmptyDict
    ELSE IF ans.kind # "ok" THEN AllDocuments(docs)
    ELSE LET r == Organize(ans.clusters, EmptyDict, docs)
         IN IF r.raised THEN AllDocuments(docs) ELSE r.clustered_docs

\* ----------------------------------------------------------------- exports
\* Text is a sequence of one-character strings.  A Python value is its type
\* and its repr text; a list or a tuple has items, a dict is a function from
\* its keys.
PyStr(text) == [py |-> "str", v |-> text]
PyInt(text) == [py |-> "int", v |-> text]
PyFloat(text) == [py |-> "float", v |-> text]
PyNone == [py |-> "none", v |-> <<>>]
PyList(items) == [py |-> "list", v |-> <<>>, items |-> items]
PyTuple(items) == [py |-> "tuple", v |-> <<>>, items |-> items]
PyDict(d) == [py |-> "dict", v |-> <<>>, dict |-> d]
\* the key is not in the dict
Absent == [py |-> "absent", v |-> <<>>]

\* the dict holding the keys of rec that are not Absent
Present(rec) == [k \in {x \in DOMAIN rec : rec[x].py # "absent"} |-> rec[k]]

\* json.dumps writes a string between quotes, a quote and a backslash after a
\* backslash; with ensure_ascii=False every other character as it is
RECURSIVE Escape(_)
Escape(text) ==
    IF text = <<>> THEN <<>>
    ELSE IF Head(text) \in {"\"", "\\"}
    THEN <<"\\", Head(text)>> \o Escape(Tail(text))
    ELSE <<Head(text)>> \o Escape(Tail(text))

\* a parser that keeps the backslashes
KeepsBackslashes(text) == text

\* json.loads reads the character after a backslash as itself
RECURSIVE Unescape(_)
Unescape(text) ==
    IF text = <<>> THEN <<>>
    ELSE IF Head(text) = "\\" /\ Len(text) >= 2
    THEN <<text[2]>> \o Unescape(SubSeq(text, 3, Len(text)))
    ELSE <<Head(text)>> \o Unescape(Tail(text))

\* json.dumps(value): the JSON text, as the tree of its literals
RECURSIVE dumps(_)
dumps(value) ==
    CASE value.py = "str" -> [js |-> "string", text |-> Escape(value.v)]
      [] value.py \in {"int", "float"} -> [js |-> "number", text |-> value.v]
      [] value.py = "none" -> [js |-> "null", text |-> <<>>]
      [] value.py \in {"list", "tuple"} ->
           [js |-> "array", text |-> <<>>,
            items |-> [i \in 1..Len(value.items) |-> dumps(value.items[i])]]
      [] value.py = "dict" ->
           [js |-> "object", text |-> <<>>,
            members |-> [k \in DOMAIN value.dict |-> dumps(value.dict[k])]]

\* json.loads(text): a number with a fraction is a float, an array a list
RECURSIVE loads(_)
loads(json) ==
    CASE json.js = "string" -> PyStr(Unescape(json.text))
      [] json.js = "number" ->
           IF "." \in Range(json.text) THEN PyFloat(json.text) ELSE PyInt(json.text)
      [] json.js = "null" -> PyNone
      [] json.js = "array" ->
           PyList([i \in 1..Len(json.items) |-> loads(json.items[i])])
      [] json.js = "object" ->
           PyDict([k \in DOMAIN json.members |-> loads(json.members[k])])

\* DocumentProcessor._export_json
export_json(docs) == dumps(PyList([i \in 1..Len(docs) |-> PyDict(docs[i])]))

\* the characters of the column names, in the order of their code points
Alphabet ==
    <<"0", "1", "2", "3", "4", "5", "6", "7", "8", "9", "_",
      "a", "b", "c", "d", "e", "f", "g", "h", "i", "j", "k", "l", "m",
      "n", "o", "p", "q", "r", "s", "t", "u", "v", "w", "x", "y", "z">>

Code(ch) == CHOOSE i \in 1..Len(Alphabet) : Alphabet[i] = ch

\* s < t for two Python strings
RECURSIVE LexLess(_, _)
LexLess(s, t) ==
    IF t = <<>> THEN FALSE
    ELSE IF s = <<>> THEN TRUE
    ELSE IF Head(s) # Head(t) THEN Code(Head(s)) < Code(Head(t))
    ELSE LexLess(Tail(s), Tail(t))

\* str(n) for a small n
Digits(n) ==
    IF n < 10 THEN <<Alphabet[n + 1]>>
    ELSE <<Alphabet[(n \div 10) + 1], Alphabet[(n % 10) + 1]>>

ColUrl == <<"u", "r", "l">>
ColTitle == <<"t", "i", "t", "l", "e">>
ColSummary == <<"s", "u", "m", "m", "a", "r", "y">>
ColRelevanceScore ==
    <<"r", "e", "l", "e", "v", "a", "n", "c", "e", "_", "s", "c", "o", "r", "e">>
ColTimestamp == <<"t", "i", "m", "e", "s", "t", "a", "m", "p">>
ColKeyPoint(n) == <<"k", "e", "y", "_", "p", "o", "i", "n", "t", "_">> \o Digits(n)
ColSectionTitle(n) ==
    <<"s", "e", "c", "t", "i", "o", "n", "_">> \o Digits(n) \o <<"_", "t", "i", "t", "l", "e">>
ColSectionContent(n) ==
    <<"s", "e", "c", "t", "i", "o", "n", "_">> \o Digits(n)
        \o <<"_", "c", "o", "n", "t", "e", "n", "t">>

\* doc.get(key, default) for an exported document
DocGet(doc, key, default) == IF key \in DOMAIN doc THEN doc[key] ELSE default

ItemsOf(doc, key) == DocGet(doc, key, PyList(<<>>)).items

\* the flattened document of _export_csv: column name to value
flat_doc(doc) ==
    LET points == ItemsOf(doc, "key_points")
        sections == ItemsOf(doc, "sections")
        fixed == {ColUrl, ColTitle, ColSummary, ColRelevanceScore, ColTimestamp}
        cols == fixed
                \cup {ColKeyPoint(i) : i \in 1..Len(points)}
                \cup {ColSectionTitle(i) : i \in 1..Len(sections)}
                \cup {ColSectionContent(i) : i \in 1..Len(sections)}
    IN [col \in cols |->
         CASE col = ColUrl -> DocGet(doc, "url", PyStr(<<>>))
           [] col = ColTitle -> DocGet(doc, "title", PyStr(<<>>))
           [] col = ColSummary -> DocGet(doc, "summary", PyStr(<<>>))
           [] col = ColRelevanceScore -> DocGet(doc, "relevance_score", PyInt(<<"0">>))
           [] col = ColTimestamp -> DocGet(doc, "timestamp", PyStr(<<>>))
           [] \E i \in 1..Len(points) : col = ColKeyPoint(i) ->
                points[CHOOSE i \in 1..Len(points) : col = ColKeyPoint(i)]
           [] \E i \in 1..Len(sections) : col = ColSectionTitle(i) ->
                DocGet(sections[CHOOSE i \in 1..Len(sections) : col = ColSectionTitle(i)].dict,
                       "title", PyStr(<<>>))
           [] OTHER ->
                DocGet(sections[CHOOSE i \in 1..Len(sections) : col = ColSectionContent(i)].dict,
                       "content", PyStr(<<>>))]

\* the keys of the first document only
FirstKeys(flattened_docs) == DOMAIN flattened_docs[1]

\* all_keys: the keys of every flattened document
all_keys(flattened_docs) ==
    UNION {DOMAIN flattened_docs[i] : i \in 1..Len(flattened_docs)}

\* sorted(keys)
SortedKeys(keys) ==
    [k \in 1..Cardinality(keys) |->
        CHOOSE col \in keys : Cardinality({c \in keys : LexLess(c, col)}) = k - 1]

\* the field csv.DictWriter writes for a value: its str(), nothing for None
Cell(value) == IF value.py = "none" THEN <<>> ELSE value.v

\* DocumentProcessor._export_csv: the header and the rows, each a list of
\* fields; nothing at all for an empty list
export_csv(docs) ==
    IF docs = <<>>
    THEN [header |-> <<>>, rows |-> <<>>]
    ELSE LET flattened_docs == [i \in 1..Len(docs) |-> flat_doc(docs[i])]
             fieldnames == SortedKeys(all_keys(flattened_docs))
         IN [header |-> fieldnames,
             rows |-> [i \in 1..Len(docs) |->
                         [k \in 1..Len(fieldnames) |->
                             IF fieldnames[k] \in DOMAIN flattened_docs[i]
                             THEN Cell(flattened_docs[i][fieldnames[k]])
                             ELSE <<>>]]]

\* DocumentProcessor._export_markdown: for each document its heading, its
\* source and its score; nothing for an empty list
export_markdown(docs) ==
    [i \in 1..Len(docs) |->
        [number |-> i,
         title |-> DocGet(docs[i], "title", PyStr(<<"D", "o", "c">>)),
         source |-> DocGet(docs[i], "url", PyStr(<<"N", "o">>)),
         score |-> DocGet(docs[i], "relevance_score", PyInt(<<"0">>))]]

\* a comparison that reads the name as it is written
AsWritten(text) == text

\* str.lower() on the letters format names are written with
Lower(text) ==
    [i \in 1..Len(text) |->
        CASE text[i] = "J" -> "j" [] text[i] = "S" -> "s" [] text[i] = "O" -> "o"
          [] text[i] = "N" -> "n" [] text[i] = "C" -> "c" [] text[i] = "V" -> "v"
          [] text[i] = "M" -> "m" [] text[i] = "A" -> "a" [] text[i] = "R" -> "r"
          [] text[i] = "K" -> "k" [] text[i] = "D" -> "d" [] text[i] = "W" -> "w"
          [] text[i] = "X" -> "x" [] text[i] = "L" -> "l"
          [] OTHER -> text[i]]

Json == <<"j", "s", "o", "n">>
Csv == <<"c", "s", "v">>
Markdown == <<"m", "a", "r", "k", "d", "o", "w", "n">>

\* DocumentProcessor.export_documents: which exporter ran, and its output
export_documents(docs, format) ==
    IF Lower(format) = Json
    THEN [exporter |-> "json", output |-> export_json(docs)]
    ELSE IF Lower(format) = Csv
    THEN [exporter |-> "csv", output |-> export_csv(docs)]
    ELSE IF Lower(format) = Markdown
    THEN [exporter |-> "markdown", output |-> export_markdown(docs)]
    ELSE [exporter |-> "json", output |-> export_json(docs)]

\* ------------------------------------------------------------------ state
VARIABLES
    call,               \* the caller's arguments
    pc,                 \* where the call is
    params,             \* results["metadata"]["parameters"]: what intelligent_scrape was given
    max_pages,          \* the page budget of the traversal
    max_depth,          \* the depth limit, after the site analysis adjusted it
    map_state,          \* map_site_structure: visited, links_to_visit, pages_by_depth
    visited_urls,
    links_to_visit,
    pages_by_depth,
    current_url,
    page_content,       \* the links of the page fetched in this iteration
    results,            \* documents and stats of the result
    memory,
    discovered_topics,  \* the list _perform_intelligent_scrape's name is bound to
    topics_arg,         \* the list intelligent_scrape created and returns
    topics_shared,      \* both names still denote the same list
    fetch_calls,        \* history: fetch_page calls of the traversal, per URL
    map_fetch_calls,    \* history: fetch_page calls of the site mapping, per URL
    fetch_failed,       \* history: URLs whose fetch raised
    analysed,           \* history: URLs a relevance analysis was requested for
    prioritized,        \* history: URLs link prioritization was run for
    last_analysis,      \* history: the latest analysis: its answer, the memory before it, its failure
    topic_batches,      \* history: the new_topics batches returned, concatenated
    proc_pc,            \* a direct call of the document processor: where it is
    documents,          \* its documents argument
    processed,          \* what process_documents returned
    clusters,           \* what cluster_documents returned
    cluster_answer,     \* history: the analyzer's answer to the cluster request
    rate_limit,         \* Crawler.rate_limit
    clock,              \* time.time()
    last_request_time,  \* Crawler.last_request_time
    map_last_request_time, \* last_request_time of the Crawler map_site_structure creates
    request_log,        \* history: the requests passed through respect_rate_limits
    respect_robots,     \* Crawler.respect_robots
    robot_parsers,      \* Crawler.robot_parsers
    last_fetch,            \* history: the latest fetch_page call and how it ended
    fetch_count,        \* history: the number of fetch_page calls
    playwright,         \* DynamicCrawler.playwright: none, started, stopped
    browser,            \* DynamicCrawler.browser: none, launched, closed
    enter_count,        \* history: the times __enter__ returned the crawler
    exit_count,         \* history: the times __exit__ was called
    format_arg,         \* the format argument of export_documents
    exported,           \* what export_documents returned
    filename_arg,       \* the filename argument of save
    output_format,      \* RufusClient.output_format
    batch_pc,           \* batch_scrape: where it is
    urls_arg,           \* its urls argument
    batch_next,         \* the position in urls the for loop is at
    batch_results,      \* its results dict
    scrape_calls,       \* history: the scrape calls made, with how each ended
    last_request,       \* history: what the latest judgment request showed of the memory
    recommendations,    \* what _analyze_instruction returned, and the analyzer's answer it had
    crawler,            \* RufusClient.crawler: the Crawler object the client holds
    scrape_pc,          \* a call of scrape: where it is, and how it ended
    scrape_args,        \* its respect_robots, rate_limit and advanced_options arguments
    temp_crawler,       \* its local temp_crawler
    original_crawler,   \* its local original_crawler
    enqueue_log,        \* history: the URLs appended to links_to_visit, in order
    dequeue_log         \* history: the URLs popped from links_to_visit, in order

vars ==
    <<call, pc, params, max_pages, max_depth, map_state, visited_urls,
      links_to_visit, pages_by_depth, current_url, page_content, results, memory,
      discovered_topics, topics_arg, topics_shared, fetch_calls, map_fetch_calls,
      fetch_failed, analysed, prioritized, last_analysis, topic_batches,
      proc_pc, documents, processed, clusters, cluster_answer,
      rate_limit, clock, last_request_time, map_last_request_time, request_log,
      respect_robots, robot_parsers, last_fetch, fetch_count,
      playwright, browser, enter_count, exit_count, format_arg, exported,
      filename_arg, output_format,
      batch_pc, urls_arg, batch_next, batch_results, scrape_calls, last_request,
      recommendations, crawler, scrape_pc, scrape_args, temp_crawler, original_crawler,
      enqueue_log, dequeue_log>>

\* the arguments of the call, and the processor and the rate limiter when
\* they are exercised on their own
processor == <<proc_pc, documents, processed, clusters, cluster_answer>>
limiter == <<rate_limit, clock, last_request_time, map_last_request_time, request_log>>
fetcher == <<respect_robots, robot_parsers, last_fetch, fetch_count>>
context == <<playwright, browser, enter_count, exit_count>>
exporter == <<format_arg, exported, filename_arg, output_format>>
batch == <<batch_pc, urls_arg, batch_next, batch_results, scrape_calls>>
scraper == <<crawler, scrape_pc, scrape_args, temp_crawler, original_crawler>>
others == <<fetcher, context, exporter, batch, last_request, recommendations, scraper>>
queue_log == <<enqueue_log, dequeue_log>>
config == <<call, processor, limiter, others, queue_log>>
mapping == <<map_state, map_fetch_calls>>
frontier == <<visited_urls, links_to_visit, pages_by_depth>>
topicvars == <<discovered_topics, topics_arg, topics_shared, topic_batches>>
history == <<fetch_calls, fetch_failed, analysed, prioritized, last_analysis>>

\* site_map has no "analysis", or one without "recommended_depth"
NoAnalysis == [present |-> FALSE, is_object |-> TRUE, recommended_depth |-> 0]
\* the analysis parsed to a JSON scalar (a number, null, true)
ScalarAnalysis == [present |-> TRUE, is_object |-> FALSE, recommended_depth |-> 0]
NoAnalysisYet ==
    [url |-> NoUrl, answer |-> Answer("none", 0, "", JsonList(<<>>), JsonList(<<>>)),
     before |-> EmptyMemory, failed |-> FALSE]
NoCalls == [u \in {} |-> 0]
NoMapState == [visited |-> {}, links_to_visit |-> <<>>, pages_by_depth |-> NoCalls]
\* the result of intelligent_scrape; returned tells that the keys written at
\* the end (total time, processed documents, topics) are there
EmptyResults ==
    [documents |-> <<>>,
     stats |-> [pages_visited |-> 0, pages_with_content |-> 0,
                total_extraction_time |-> 0],
     processed_documents |-> <<>>,
     discovered_topics |-> <<>>,
     returned |-> FALSE]

Calls(apis, shorts, min_pages) ==
    [api : apis, url : {A}, instruction_is_short : shorts,
     max_pages : min_pages..MaxPagesArg, max_depth : 0..MaxDepthArg,
     map_first : BOOLEAN, use_memory : BOOLEAN, dynamic : {FALSE}]

NoClusterAnswer == [kind |-> "none", clusters |-> <<>>]

ProcessorIdle ==
    /\ proc_pc = "idle"
    /\ documents = <<>>
    /\ processed = <<>>
    /\ clusters = EmptyDict
    /\ cluster_answer = NoClusterAnswer

LimiterIdle ==
    /\ rate_limit = 0
    /\ clock = 0
    /\ last_request_time = EmptyDict
    /\ map_last_request_time = EmptyDict
    /\ request_log = <<>>

NoFetch == [url |-> NoUrl, outcome |-> "none", cause |-> "none", requested |-> FALSE]

FetcherIdle ==
    /\ respect_robots = FALSE
    /\ robot_parsers = EmptyDict
    /\ last_fetch = NoFetch
    /\ fetch_count = 0

ContextIdle ==
    /\ playwright = "none"
    /\ browser = "none"
    /\ enter_count = 0
    /\ exit_count = 0

NotExported == [exporter |-> "none", output |-> <<>>]

ExporterIdle ==
    /\ format_arg = <<>>
    /\ exported = NotExported
    /\ filename_arg = <<>>
    /\ output_format = <<>>

BatchIdle ==
    /\ batch_pc = "idle"
    /\ urls_arg = <<>>
    /\ batch_next = 1
    /\ batch_results = EmptyDict
    /\ scrape_calls = <<>>

\* a Crawler object: which one it is, and what it was constructed with
CrawlerObject(id, robots, limit) == [id |-> id, respect_robots |-> robots, rate_limit |-> limit]
\* None
NoCrawler == CrawlerObject("none", FALSE, 0)
\* an argument left at its default None
None == "None"
NoScrapeArgs == [respect_robots |-> None, rate_limit |-> None, advanced_options |-> None]

\* no call of scrape is followed; the client holds the crawler __init__ made
ScrapeIdle ==
    /\ crawler = CrawlerObject("client", FALSE, 0)
    /\ scrape_pc = "idle"
    /\ scrape_args = NoScrapeArgs
    /\ temp_crawler = NoCrawler
    /\ original_crawler = NoCrawler

\* _analyze_instruction was not called
NoRecommendations ==
    [result |-> [recommended_depth |-> 0, recommended_pages |-> 0, consulted |-> FALSE],
     answer |-> InstrAnswer(FALSE, FALSE, 0, FALSE, 0)]

NoRequest == [summaries |-> <<>>, concepts |-> {}, before |-> EmptyMemory, made |-> FALSE]

OthersIdle ==
    /\ FetcherIdle /\ ContextIdle /\ ExporterIdle /\ BatchIdle
    /\ last_request = NoRequest /\ recommendations = NoRecommendations /\ ScrapeIdle

InitCrawl(calls) ==
    /\ call \in calls
    /\ pc = CASE call.api = "scrape" -> "scrape"
              [] call.api = "intelligent_scrape" -> "begin"
              [] OTHER -> "idle"
    /\ params = [max_pages |-> call.max_pages, max_depth |-> call.max_depth]
    /\ max_pages = call.max_pages
    /\ max_depth = call.max_depth
    /\ map_state = NoMapState
    /\ visited_urls = {}
    /\ links_to_visit = <<>>
    /\ pages_by_depth = NoCalls
    /\ current_url = NoUrl
    /\ page_content = <<>>
    /\ results = EmptyResults
    /\ memory = EmptyMemory
    /\ discovered_topics = <<>>
    /\ topics_arg = <<>>
    /\ topics_shared = TRUE
    /\ fetch_calls = NoCalls
    /\ map_fetch_calls = NoCalls
    /\ fetch_failed = {}
    /\ analysed = {}
    /\ prioritized = {}
    /\ last_analysis = NoAnalysisYet
    /\ topic_batches = <<>>
    /\ enqueue_log = <<>>
    /\ dequeue_log = <<>>

InitWith(calls) == InitCrawl(calls) /\ ProcessorIdle /\ LimiterIdle /\ OthersIdle

\* no crawl is running
NoCall ==
    [api |-> "none", url |-> NoUrl, instruction_is_short |-> FALSE,
     max_pages |-> 0, max_depth |-> 0, map_first |-> FALSE, use_memory |-> FALSE,
     dynamic |-> FALSE]

CrawlIdle == InitCrawl({NoCall})

\* ------------------------------------------------------------------ scrape
\* RufusClient.scrape: the instruction analysis decides the budgets handed to
\* intelligent_scrape (recommendations always holds both keys).
ScrapeAnalyze ==
    /\ pc = "scrape"
    /\ \E ans \in InstrAnswers :
         LET rec == analyze_instruction(call.instruction_is_short, ans)
             actual_max_depth == rec.recommended_depth
             actual_max_pages == rec.recommended_pages
         IN /\ params' = [max_pages |-> actual_max_pages, max_depth |-> actual_max_depth]
            /\ max_pages' = actual_max_pages
            /\ max_depth' = actual_max_depth
    /\ pc' = "begin"
    /\ UNCHANGED <<config, mapping, frontier, current_url, page_content, results,
                   memory, topicvars, history>>

\* ------------------------------------------- _analyze_instruction alone
\* numbers an answer may hold: below, at, within and above both ranges
Recommended == {-1, 0, 1, 3, 5, 6, 49, 50, 51, MaxRecommended}

\* the answers: a failed call, and objects with or without each key, their
\* values numbers or not
WideInstrAnswers ==
    {InstrAnswer(FALSE, FALSE, 0, FALSE, 0)}
    \cup {[InstrAnswer(TRUE, hd, IF hd THEN d ELSE 0, hp, IF hp THEN q ELSE 0)
             EXCEPT !.depth_converts = dc, !.pages_converts = pc_] :
             hd \in BOOLEAN, d \in Recommended, hp \in BOOLEAN, q \in Recommended,
             dc \in BOOLEAN, pc_ \in BOOLEAN}

\* a call of _analyze_instruction
AnalyzeInstruction ==
    /\ pc = "scrape"
    /\ \E ans \in WideInstrAnswers :
         recommendations' =
             [result |-> analyze_instruction(call.instruction_is_short, ans),
              answer |-> ans]
    /\ pc' = "analyzed"
    /\ UNCHANGED <<call, queue_log, processor, limiter, fetcher, context, exporter,
                   batch, last_request, scraper, params, max_pages, max_depth,
                   mapping, frontier, current_url, page_content, results, memory,
                   topicvars, history>>

InitInstruction ==
    InitWith({c \in Calls({"scrape"}, BOOLEAN, 1) : ~c.map_first /\ ~c.use_memory})

NextInstruction == AnalyzeInstruction

SpecInstruction == InitInstruction /\ [][NextInstruction]_vars

\* ------------------------------------------- scrape and the client's crawler
\* what a caller passes for respect_robots, rate_limit and advanced_options:
\* nothing, a value, and for the options a dict or a value that is no dict
ScrapeArgs ==
    [respect_robots : {None, "True", "False"},
     rate_limit : {None} \cup {ToString(l) : l \in 0..MaxRateLimit},
     advanced_options : {None, "dict", "list"}]

\* scrape up to the swap: the arguments left at None take the client's
\* settings; a temporary crawler is made when they differ from the client's
\* and is installed as the client's crawler
ScrapeSwap ==
    /\ scrape_pc = "called"
    /\ LET robots == IF scrape_args.respect_robots = None
                     THEN crawler.respect_robots
                     ELSE scrape_args.respect_robots = "True"
           limit == IF scrape_args.rate_limit = None
                    THEN ToString(crawler.rate_limit)
                    ELSE scrape_args.rate_limit
           temp == IF robots # crawler.respect_robots
                      \/ limit # ToString(crawler.rate_limit)
                   THEN [id |-> "temp", respect_robots |-> robots,
                         rate_limit |-> CHOOSE l \in 0..MaxRateLimit : ToString(l) = limit]
                   ELSE NoCrawler
       IN /\ temp_crawler' = temp
          /\ original_crawler' = crawler
          /\ crawler' = IF temp # NoCrawler THEN temp ELSE crawler
    /\ scrape_pc' = "options"
    /\ UNCHANGED <<call, queue_log, processor, limiter, fetcher, context, exporter,
                   batch, last_request, recommendations, scrape_args, pc, params,
                   max_pages, max_depth, mapping, frontier, current_url, page_content,
                   results, memory, topicvars, history>>

\* the advanced options are read with .get: a value that is no dict raises
\* AttributeError, outside every try block
ScrapeOptions ==
    /\ scrape_pc = "options"
    /\ scrape_pc' = IF scrape_args.advanced_options = "list" THEN "raised" ELSE "check"
    /\ UNCHANGED <<call, queue_log, processor, limiter, fetcher, context, exporter,
                   batch, last_request, recommendations, crawler, scrape_args,
                   temp_crawler, original_crawler, pc, params,
                   max_pages, max_depth, mapping, frontier, current_url, page_content,
                   results, memory, topicvars, history>>

\* how requests.head ends: a response, a RequestException (caught and
\* logged), or another exception (KeyboardInterrupt while it waits), which
\* leaves scrape
HeadEnds == {"ok", "request_exception", "interrupted"}

ScrapeUrlCheck ==
    /\ scrape_pc = "check"
    /\ \E head \in HeadEnds :
         scrape_pc' = IF head = "interrupted" THEN "raised" ELSE "try"
    /\ UNCHANGED <<call, queue_log, processor, limiter, fetcher, context, exporter,
                   batch, last_request, recommendations, crawler, scrape_args,
                   temp_crawler, original_crawler, pc, params,
                   max_pages, max_depth, mapping, frontier, current_url, page_content,
                   results, memory, topicvars, history>>

\* how the try block ends: the documents are returned, an Exception is
\* caught and the error record returned, or an exception that is no
\* Exception (KeyboardInterrupt) leaves scrape
TryEnds == {"returned", "error_returned", "raised"}

\* finally: if temp_crawler: self.crawler = original_crawler
RestoreCrawler(temp, original, current) ==
    IF temp # NoCrawler THEN original ELSE current

\* the try statement, with its finally clause
ScrapeTry ==
    /\ scrape_pc = "try"
    /\ \E end \in TryEnds : scrape_pc' = end
    /\ crawler' = RestoreCrawler(temp_crawler, original_crawler, crawler)
    /\ UNCHANGED <<call, queue_log, processor, limiter, fetcher, context, exporter,
                   batch, last_request, recommendations, scrape_args,
                   temp_crawler, original_crawler, pc, params,
                   max_pages, max_depth, mapping, frontier, current_url, page_content,
                   results, memory, topicvars, history>>

InitScrapeCall ==
    /\ CrawlIdle
    /\ ProcessorIdle
    /\ LimiterIdle
    /\ FetcherIdle
    /\ ContextIdle
    /\ ExporterIdle
    /\ BatchIdle
    /\ last_request = NoRequest
    /\ recommendations = NoRecommendations
    /\ crawler \in {CrawlerObject("client", r, l) : r \in BOOLEAN, l \in 0..MaxRateLimit}
    /\ scrape_pc = "called"
    /\ scrape_args \in ScrapeArgs
    /\ temp_crawler = NoCrawler
    /\ original_crawler = NoCrawler

NextScrapeCall ==
    \/ ScrapeSwap
    \/ ScrapeOptions
    \/ ScrapeUrlCheck
    \/ ScrapeTry

SpecScrapeCall == InitScrapeCall /\ [][NextScrapeCall]_vars

\* ------------------------------------------------------- intelligent_scrape
\* site mapping is limited to min(20, max_pages) pages and min(2, max_depth) levels
map_page_cap == 20
map_depth_cap == 2
MapMaxPages == Min(map_page_cap, params.max_pages)
MapMaxDepth == Min(map_depth_cap, params.max_depth)

\* intelligent_scrape up to the site mapping; map_site_structure's set-up
Begin ==
    /\ pc = "begin"
    /\ IF call.map_first
       THEN /\ map_state' = [visited |-> {}, links_to_visit |-> <<call.url>>,
                             pages_by_depth |-> Put(NoCalls, call.url, 0)]
            /\ pc' = "map"
       ELSE /\ UNCHANGED map_state
            /\ pc' = "start"
    /\ UNCHANGED <<config, params, max_pages, max_depth, map_fetch_calls,
                   frontier, current_url, page_content, results, memory, topicvars,
                   history>>

\* the links of a mapped page that stay on the seed's site
SameSiteLinks(links, seed) ==
    SelectSeq(links, LAMBDA l : StartsWith(l, seed) \/ is_same_domain(seed, l))

\* One iteration of map_site_structure's loop: dequeue, skip or visit, fetch,
\* and on success queue the page's same-site links.  Limit(url) is what the
\* fetch does to the rate limiter of the crawler map_site_structure created.
MapStepWith(Limit(_)) ==
    /\ pc = "map"
    /\ map_state.links_to_visit # <<>>
    /\ Cardinality(map_state.visited) < MapMaxPages
    /\ LET url == Pop(map_state.links_to_visit).url
           rest == Pop(map_state.links_to_visit).rest
           depth == Get(map_state.pages_by_depth, url, 0)
       IN IF url \in map_state.visited \/ depth > MapMaxDepth
          THEN /\ map_state' = [map_state EXCEPT !.links_to_visit = rest]
               /\ UNCHANGED <<map_fetch_calls, limiter>>
          ELSE \E fetched \in BOOLEAN :
                 LET visited == MarkVisited(map_state.visited, url)
                     st == IF fetched /\ depth < MapMaxDepth
                           THEN EnqueueLinks(SameSiteLinks(SiteLinks(url), call.url),
                                             visited,
                                             [queue |-> rest,
                                              depth |-> map_state.pages_by_depth],
                                             depth)
                           ELSE [queue |-> rest, depth |-> map_state.pages_by_depth]
                 IN /\ map_state' = [visited |-> visited, links_to_visit |-> st.queue,
                                     pages_by_depth |-> st.depth]
                    /\ map_fetch_calls' = Put(map_fetch_calls, url,
                                              Get(map_fetch_calls, url, 0) + 1)
                    /\ \E requested \in BOOLEAN :
                         IF requested THEN Limit(url)
                         ELSE ~fetched /\ UNCHANGED limiter
    /\ UNCHANGED <<call, processor, others, queue_log, pc, params, max_pages,
                   max_depth, frontier, current_url, page_content, results, memory,
                   topicvars, history>>

\* the mapping with the time its requests take left out
MapStep == MapStepWith(LAMBDA url : UNCHANGED limiter)

\* depths the site analysis may recommend
RecommendedDepths == (-1)..(MaxDepthArg + 1)

SiteAnalyses ==
    {NoAnalysis, ScalarAnalysis}
    \cup {[present |-> TRUE, is_object |-> TRUE, recommended_depth |-> d] :
             d \in RecommendedDepths}

\* The end of map_site_structure (the analysis of the map, kept only when the
\* call and the parse succeed) and intelligent_scrape's adjustment of max_depth:
\* a recommended depth replaces max_depth only when it is lower.  The test
\* "recommended_depth" in site_map["analysis"] raises TypeError on a scalar,
\* outside every try block: intelligent_scrape raises.
AdjustDepthAlways(analysis, depth) ==
    IF analysis.present THEN analysis.recommended_depth ELSE depth

AdjustDepth(analysis, depth) ==
    IF analysis.present /\ analysis.recommended_depth < depth
    THEN analysis.recommended_depth
    ELSE depth

MapAnalysis ==
    /\ pc = "map"
    /\ ~(map_state.links_to_visit # <<>> /\ Cardinality(map_state.visited) < MapMaxPages)
    /\ \E analysis \in SiteAnalyses :
         IF analysis.present /\ ~analysis.is_object
         THEN /\ pc' = "raised"
              /\ UNCHANGED max_depth
         ELSE /\ pc' = "start"
              /\ max_depth' = AdjustDepth(analysis, max_depth)
    /\ map_state' = NoMapState
    /\ UNCHANGED <<config, params, max_pages, map_fetch_calls, frontier,
                   current_url, page_content, results, memory, topicvars, history>>

\* intelligent_scrape's step 2 set-up and _perform_intelligent_scrape's:
\* a fresh memory and topic list, the seed queued at depth 0
\* _perform_intelligent_scrape starts; with dynamic=True it starts inside the
\* with block, once __enter__ has returned
StartTraversal ==
    /\ pc = "start"
    /\ call.dynamic => enter_count = 1
    /\ memory' = EmptyMemory
    /\ discovered_topics' = <<>>
    /\ topics_arg' = <<>>
    /\ topics_shared' = TRUE
    /\ visited_urls' = {}
    /\ links_to_visit' = <<call.url>>
    /\ pages_by_depth' = Put(NoCalls, call.url, 0)
    /\ enqueue_log' = <<call.url>>
    /\ dequeue_log' = <<>>
    /\ pc' = "loop"
    /\ UNCHANGED <<call, processor, limiter, others, params, max_pages,
                   max_depth, mapping, current_url,
                   page_content, results, topic_batches, history>>

\* ------------------------------------------- _perform_intelligent_scrape
\* a loop that stops one page short of the budget
LoopConditionStopsShort ==
    links_to_visit # <<>> /\ Cardinality(visited_urls) + 1 < max_pages

LoopCondition == links_to_visit # <<>> /\ Cardinality(visited_urls) < max_pages

\* a dequeued URL is skipped when it is visited already or lies too deep
Skips(url, depth) == url \in visited_urls \/ depth > max_depth

\* the except clause lies inside the loop: the next iteration follows
AfterExceptionAborts == "done"

AfterException == "loop"

\* links are looked for only above max_depth
ShouldExpandInclusive(current_depth) == current_depth <= max_depth

ShouldExpand(current_depth) == current_depth < max_depth

\* The head of an iteration: pop the queue, skip, or mark visited and count.
Dequeue ==
    /\ pc = "loop"
    /\ LoopCondition
    /\ LET url == Pop(links_to_visit).url
           current_depth == Get(pages_by_depth, url, 0)
       IN /\ links_to_visit' = Pop(links_to_visit).rest
          /\ dequeue_log' = Append(dequeue_log, url)
          /\ IF Skips(url, current_depth)
             THEN UNCHANGED <<visited_urls, results, current_url, pc>>
             ELSE /\ visited_urls' = MarkVisited(visited_urls, url)
                  /\ results' = [results EXCEPT !.stats.pages_visited = @ + 1]
                  /\ current_url' = url
                  /\ pc' = "fetch"
    /\ UNCHANGED <<call, processor, limiter, others, enqueue_log, params,
                   max_pages, max_depth, mapping, pages_by_depth,
                   page_content, memory, topicvars, history>>

\* crawler.fetch_page(current_url): the page, or an exception that ends the
\* iteration in the except clause.  Limit(url) is what a fetch that gets as
\* far as respect_rate_limits does to the crawler's rate limiter; a fetch the
\* robots policy denies raises before.
FetchWith(Limit(_)) ==
    /\ pc = "fetch"
    /\ fetch_calls' = Put(fetch_calls, current_url, Get(fetch_calls, current_url, 0) + 1)
    /\ \E fetched \in BOOLEAN :
         IF fetched
         THEN /\ page_content' = SiteLinks(current_url)
              /\ pc' = "analyze"
              /\ UNCHANGED fetch_failed
         ELSE /\ fetch_failed' = fetch_failed \cup {current_url}
              /\ pc' = AfterException
              /\ UNCHANGED page_content
    /\ \E requested \in BOOLEAN :
         IF requested THEN Limit(current_url)
         ELSE pc' = AfterException /\ UNCHANGED limiter
    /\ UNCHANGED <<call, processor, others, queue_log, params, max_pages, max_depth,
                   mapping, frontier, current_url, results, memory, topicvars,
                   analysed, prioritized, last_analysis>>

\* the fetch with the time its request takes left out
Fetch == FetchWith(LAMBDA url : UNCHANGED limiter)

\* a page is saved only if relevant: relevance_score > 0
IsRelevantOrZero(content) == content.relevance_score >= 0

IsRelevant(content) == content.relevance_score > 0

\* The relevance analysis of the fetched page and the document it may give.
\* An exception (the extractor's, or relevant_content.get on a non-object)
\* ends the iteration; otherwise the page is expanded when it is not at
\* max_depth.
Analyze(answers) ==
    /\ pc = "analyze"
    /\ analysed' = analysed \cup {current_url}
    /\ \E ans \in answers :
         LET r == IF call.use_memory
                  THEN extract_with_memory(ans, memory)
                  ELSE [content |-> extract_relevant_content(ans), memory |-> memory,
                        failed |-> AnalysisFailed(ans)]
             relevant_content == r.content
             current_depth == Get(pages_by_depth, current_url, 0)
         IN /\ memory' = r.memory
            /\ last_analysis' = [url |-> current_url, answer |-> ans,
                                 before |-> memory, failed |-> r.failed]
            /\ IF relevant_content.raised \/ ~relevant_content.is_dict
               THEN /\ pc' = AfterException
                    /\ UNCHANGED results
               ELSE /\ results' =
                         IF IsRelevant(relevant_content)
                         THEN [results EXCEPT
                                 !.stats.pages_with_content = @ + 1,
                                 !.documents =
                                     Append(@, create_document(current_url, relevant_content))]
                         ELSE results
                    /\ pc' = IF ShouldExpand(current_depth) THEN "expand" ELSE "loop"
    /\ UNCHANGED <<config, params, max_pages, max_depth, mapping, frontier,
                   current_url, page_content, topicvars, fetch_calls, fetch_failed,
                   prioritized>>

\* Link prioritization of a page above max_depth: the new topics are appended
\* to the list the name discovered_topics denotes, which is then rebound to a
\* deduplicated copy; the links not yet visited or queued are queued one level
\* deeper.
Expand(answers) ==
    /\ pc = "expand"
    /\ prioritized' = prioritized \cup {current_url}
    /\ \E ans \in answers :
         LET links_result == enhanced_identify_relevant_links(page_content, ans)
             current_depth == Get(pages_by_depth, current_url, 0)
             extended == discovered_topics \o links_result.new_topics
             st == EnqueueLinks(links_result.links, visited_urls,
                                [queue |-> links_to_visit, depth |-> pages_by_depth],
                                current_depth)
         IN /\ topics_arg' = IF topics_shared THEN extended ELSE topics_arg
            /\ discovered_topics' = Dedup(extended)
            /\ topics_shared' = FALSE
            /\ topic_batches' = topic_batches \o links_result.new_topics
            /\ links_to_visit' = st.queue
            /\ pages_by_depth' = st.depth
            /\ enqueue_log' = enqueue_log \o SubSeq(st.queue, Len(links_to_visit) + 1,
                                                     Len(st.queue))
    /\ pc' = "loop"
    /\ UNCHANGED <<call, processor, limiter, others, dequeue_log, params,
                   max_pages, max_depth, mapping, visited_urls,
                   current_url, page_content, results, memory, fetch_calls,
                   fetch_failed, analysed, last_analysis>>

\* The loop ends; intelligent_scrape returns the result with the topic list
\* it created.
\* The call is one with cluster_results=False, or one that collected no
\* document: the processed documents are stored in the result.  With
\* clustering, the result holds the value of cluster_documents instead
\* (client.py 516-522), which SpecCluster follows on its own.
Finish ==
    /\ pc = "loop"
    /\ ~LoopCondition
    /\ call.dynamic => exit_count = 1
    /\ results' = [results EXCEPT
                      !.stats.total_extraction_time = 1,
                      !.processed_documents = process_documents(results.documents),
                      !.discovered_topics = topics_arg,
                      !.returned = TRUE]
    /\ pc' = "done"
    /\ UNCHANGED <<config, params, max_pages, max_depth, mapping, frontier,
                   current_url, page_content, memory, topicvars, history>>

\* ---------------------------------------------------------- specifications
\* The traversal under every answer of the link prioritizer, with judgments
\* that carry nothing for the memory and no topics.
Init == InitWith(Calls({"intelligent_scrape"}, {FALSE}, 0))

Next ==
    \/ Begin
    \/ MapStep
    \/ MapAnalysis
    \/ StartTraversal
    \/ Dequeue
    \/ Fetch
    \/ Analyze(PlainAnswers)
    \/ Expand(LinkAnswers(AnyPicks(current_url), NoTopics))
    \/ Finish

Spec == Init /\ [][Next]_vars

\* A call of scrape with a page budget of at least one: the instruction
\* analysis, then the same traversal with the link prioritizer following the
\* first link only.
InitScrape == InitWith(Calls({"scrape"}, BOOLEAN, 1))

NextScrape ==
    \/ ScrapeAnalyze
    \/ Begin
    \/ MapStep
    \/ MapAnalysis
    \/ StartTraversal
    \/ Dequeue
    \/ Fetch
    \/ Analyze(FewAnswers)
    \/ Expand(LinkAnswers(FirstPicks(current_url), NoTopics))
    \/ Finish

SpecScrape == InitScrape /\ [][NextScrape]_vars

\* The traversal without site mapping and with memory, under judgments that
\* carry summaries, concepts and contradictions, well-formed or not.
InitMemory ==
    InitWith({c \in Calls({"intelligent_scrape"}, {FALSE}, 0) : ~c.map_first /\ c.use_memory})

NextMemory ==
    \/ Begin
    \/ StartTraversal
    \/ Dequeue
    \/ Fetch
    \/ Analyze(RichAnswers)
    \/ Expand(LinkAnswers(FirstPicks(current_url), NoTopics))
    \/ Finish

SpecMemory == InitMemory /\ [][NextMemory]_vars

\* The traversal without site mapping, under every batch of new topics.
InitTopics ==
    InitWith({c \in Calls({"intelligent_scrape"}, {FALSE}, 0) : ~c.map_first})

NextTopics ==
    \/ Begin
    \/ StartTraversal
    \/ Dequeue
    \/ Fetch
    \/ Analyze(FewAnswers)
    \/ Expand(LinkAnswers(FirstPicks(current_url), AnyTopics))
    \/ Finish

SpecTopics == InitTopics /\ [][NextTopics]_vars

\* The site mapping alone, from a seed with a path and from one without.
InitMap ==
    InitWith({[c EXCEPT !.url = u] :
                c \in {k \in Calls({"intelligent_scrape"}, {FALSE}, 0) : k.map_first},
                u \in {A, Root}})

NextMap ==
    \/ Begin
    \/ MapStep
    \/ MapAnalysis

SpecMap == InitMap /\ [][NextMap]_vars

\* The traversal without site mapping, under every answer of the link
\* prioritizer and judgments that succeed or fail.  The call is one
\* sequential thread: a step that can be taken is taken (the fetcher and the
\* analyzer return or raise).
InitTraversal == InitTopics

NextTraversal ==
    \/ Begin
    \/ StartTraversal
    \/ Dequeue
    \/ Fetch
    \/ Analyze(FewAnswers)
    \/ Expand(LinkAnswers(AnyPicks(current_url), NoTopics))
    \/ Finish

SpecTraversal == InitTraversal /\ [][NextTraversal]_vars /\ WF_vars(NextTraversal)

\* ------------------------------------------- the document processor alone
\* documents as a caller may hand them in: with a score (negative, zero,
\* positive), with a content that has no score, with no content
InputDocs ==
    {[source_url |-> u, content |-> [relevance_score |-> sc, summary |-> "s"],
      timestamp |-> "created"] : u \in {A, B}, sc \in {-1, 0, 3, 7}}
    \cup {[source_url |-> u, content |-> [summary |-> "s"]] : u \in {A, B}}
    \cup {[source_url |-> u] : u \in {A, B}}

\* a call of process_documents
ProcessDocuments ==
    /\ proc_pc = "process"
    /\ processed' = process_documents(documents)
    /\ proc_pc' = "processed"
    /\ UNCHANGED <<call, queue_log, documents, clusters, cluster_answer, limiter,
                   others, pc, params,
                   max_pages, max_depth, mapping, frontier, current_url,
                   page_content, results, memory, topicvars, history>>

InitProcess ==
    /\ CrawlIdle
    /\ LimiterIdle
    /\ OthersIdle
    /\ proc_pc = "process"
    /\ documents \in SeqsUpTo(InputDocs, MaxDocs)
    /\ processed = <<>>
    /\ clusters = EmptyDict
    /\ cluster_answer = NoClusterAnswer

NextProcess == ProcessDocuments

SpecProcess == InitProcess /\ [][NextProcess]_vars

\* n processed documents as process_documents returns them: scores falling
ClusterInput(n) ==
    [i \in 1..n |->
        processed_doc(create_document(A, [relevance_score |-> n + 1 - i,
                                          summary |-> "s"]))]

\* a call of cluster_documents with the analyzer answering one of answers; no
\* answer is asked for an empty list
ClusterDocumentsFrom(answers) ==
    /\ proc_pc = "cluster"
    /\ IF documents = <<>>
       THEN /\ clusters' = cluster_documents(documents, NoClusterAnswer)
            /\ UNCHANGED cluster_answer
       ELSE \E ans \in answers :
              /\ clusters' = cluster_documents(documents, ans)
              /\ cluster_answer' = ans
    /\ proc_pc' = "clustered"
    /\ UNCHANGED <<call, queue_log, documents, processed, limiter, others, pc, params,
                   max_pages, max_depth, mapping, frontier, current_url,
                   page_content, results, memory, topicvars, history>>

ClusterDocuments == ClusterDocumentsFrom(ClusterAnswers(Len(documents)))

InitCluster ==
    /\ CrawlIdle
    /\ LimiterIdle
    /\ OthersIdle
    /\ proc_pc = "cluster"
    /\ documents \in {ClusterInput(n) : n \in 0..MaxClusterDocs}
    /\ processed = <<>>
    /\ clusters = EmptyDict
    /\ cluster_answer = NoClusterAnswer

NextCluster == ClusterDocuments

SpecCluster == InitCluster /\ [][NextCluster]_vars

\* cluster_documents called without max_clusters: the default
max_clusters == 5

\* The analyzer proposes up to MaxProposed clusters of different names, each
\* with no document or with one.
ProposedAnswers(n) ==
    {ClusterAnswer("ok", e) :
        e \in UNION {[1..k -> {ClusterEntry(TRUE, "none", JsonList(l)) :
                                   l \in {<<>>, <<0>>}}] : k \in 0..MaxProposed}}

\* the proposed clusters, the i-th under the name i
Named(ans) ==
    [ans EXCEPT !.clusters =
        [i \in DOMAIN ans.clusters |-> [ans.clusters[i] EXCEPT !.name = ToString(i)]]]

ClusterProposed ==
    ClusterDocumentsFrom({Named(ans) : ans \in ProposedAnswers(Len(documents))})

NextProposed == ClusterProposed

SpecProposed == InitCluster /\ [][NextProposed]_vars

\* ------------------------------------------------------ the exports alone
\* documents as a caller hands them to an exporter: complete ones as
\* process_documents builds them, and ones with keys missing, a URL with a
\* quote and a backslash, a fractional score, a score that is a string, key
\* points in a tuple, a section without content, None for a value
TextA == <<"a">>
TextQuoted == <<"b", "\"", "\\", "c">>
FullSection == PyDict([title |-> PyStr(<<"t">>), content |-> PyStr(<<"c">>)])
TitleOnlySection == PyDict([title |-> PyStr(<<"t">>)])

ExportDocs ==
    {Present([url |-> PyStr(TextA), title |-> PyStr(<<"s">>), summary |-> PyStr(<<"s">>),
              relevance_score |-> PyInt(<<"8">>), timestamp |-> PyStr(<<"d">>),
              key_points |-> PyList(<<PyStr(<<"k">>)>>),
              sections |-> PyList(<<FullSection>>)]),
     Present([url |-> PyStr(TextQuoted), title |-> PyStr(<<"s">>), summary |-> PyStr(<<>>),
              relevance_score |-> PyFloat(<<"7", ".", "5">>), timestamp |-> PyStr(<<"d">>),
              key_points |-> PyTuple(<<PyStr(<<"k">>), PyStr(<<"l">>)>>),
              sections |-> PyList(<<>>)]),
     Present([url |-> PyStr(TextA), title |-> Absent, summary |-> Absent,
              relevance_score |-> PyInt(<<"5">>), timestamp |-> Absent,
              key_points |-> Absent,
              sections |-> PyList(<<FullSection, TitleOnlySection>>)]),
     Present([url |-> Absent, title |-> PyNone, summary |-> Absent,
              relevance_score |-> PyStr(<<"9">>), timestamp |-> Absent,
              key_points |-> PyList(<<>>), sections |-> Absent]),
     Present([url |-> PyNone, title |-> Absent, summary |-> Absent,
              relevance_score |-> Absent, timestamp |-> Absent,
              key_points |-> Absent, sections |-> Absent])}

\* format names as callers write them, and names of no exporter
Formats ==
    {Json, <<"J", "S", "O", "N">>, Csv, <<"C", "s", "v">>, Markdown,
     <<"M", "A", "R", "K", "D", "O", "W", "N">>, <<"m", "d">>, <<"x", "m", "l">>, <<>>}

\* a call of export_documents
ExportDocuments ==
    /\ proc_pc = "export"
    /\ exported' = export_documents(documents, format_arg)
    /\ proc_pc' = "exported"
    /\ UNCHANGED <<call, queue_log, documents, processed, clusters,
                   cluster_answer, limiter,
                   fetcher, context, batch, last_request, recommendations, scraper, format_arg,
                   filename_arg, output_format, pc, params,
                   max_pages, max_depth, mapping, frontier, current_url,
                   page_content, results, memory, topicvars, history>>

InitExport ==
    /\ CrawlIdle
    /\ LimiterIdle
    /\ FetcherIdle
    /\ ContextIdle
    /\ BatchIdle
    /\ last_request = NoRequest /\ recommendations = NoRecommendations /\ ScrapeIdle
    /\ proc_pc = "export"
    /\ documents \in SeqsUpTo(ExportDocs, MaxExportDocs)
    /\ processed = <<>>
    /\ clusters = EmptyDict
    /\ cluster_answer = NoClusterAnswer
    /\ format_arg \in Formats
    /\ exported = NotExported
    /\ filename_arg = <<>>
    /\ output_format = <<>>

NextExport == ExportDocuments

SpecExport == InitExport /\ [][NextExport]_vars

\* -------------------------------------------------------------- save alone
\* str.endswith
EndsWith(text, suffix) ==
    /\ Len(suffix) <= Len(text)
    /\ SubSeq(text, Len(text) - Len(suffix) + 1, Len(text)) = suffix

\* a or b, on texts: None and the empty text are false
Or(a, b) == IF a # <<>> THEN a ELSE b

\* RufusClient.export
export(docs, format) == export_documents(docs, Or(format, output_format))

\* RufusClient.save: what is written to the file, and by which exporter
save(docs, filename, format_given) ==
    LET format == Or(format_given, output_format)
        chosen == IF format = <<>>
                  THEN IF EndsWith(filename, <<".", "j", "s", "o", "n">>) THEN Json
                       ELSE IF EndsWith(filename, <<".", "c", "s", "v">>) THEN Csv
                       ELSE IF EndsWith(filename, <<".", "m", "d">>) THEN Markdown
                       ELSE Json
                  ELSE format
    IN export(docs, chosen)

\* file names with each extension, with one in capitals, with another, with none
Filenames ==
    {<<"a", ".", "j", "s", "o", "n">>, <<"a", ".", "c", "s", "v">>, <<"a", ".", "m", "d">>,
     <<"a", ".", "C", "S", "V">>, <<"a", ".", "t", "x", "t">>, <<"c", "s", "v">>}

\* what a client is constructed with: the default "json", another format, or
\* an empty text or None
OutputFormats == {Json, Markdown, <<>>}

\* a call of save
Save ==
    /\ proc_pc = "save"
    /\ exported' = save(documents, filename_arg, format_arg)
    /\ proc_pc' = "saved"
    /\ UNCHANGED <<call, queue_log, documents, processed, clusters,
                   cluster_answer, limiter,
                   fetcher, context, batch, last_request, recommendations, scraper, format_arg,
                   filename_arg, output_format, pc, params,
                   max_pages, max_depth, mapping, frontier, current_url,
                   page_content, results, memory, topicvars, history>>

InitSave ==
    /\ CrawlIdle
    /\ LimiterIdle
    /\ FetcherIdle
    /\ ContextIdle
    /\ BatchIdle
    /\ last_request = NoRequest /\ recommendations = NoRecommendations /\ ScrapeIdle
    /\ proc_pc = "save"
    /\ documents \in SeqsUpTo(ExportDocs, MaxExportDocs)
    /\ processed = <<>>
    /\ clusters = EmptyDict
    /\ cluster_answer = NoClusterAnswer
    /\ format_arg \in {<<>>, Csv, Markdown}
    /\ exported = NotExported
    /\ filename_arg \in Filenames
    /\ output_format \in OutputFormats

NextSave == Save

SpecSave == InitSave /\ [][NextSave]_vars

\* ------------------------------------------- extract_with_memory alone
\* the n-th summary and the n-th concept the analyzer comes up with
NthText(n) == ToString(n)

\* the judgments of one call: failed ones, and ones with or without a new
\* summary and with no, one or ConceptBlock new concepts
NewConcepts(mem, k) ==
    LET n == Cardinality(mem.key_concepts)
        upto == Min(n + k, MaxConcepts)
    IN [i \in 1..(upto - n) |-> NthText(n + i)]

MemoryAnswers(mem) ==
    {Answer("api_error", 0, "", JsonList(<<>>), JsonList(<<>>))}
    \cup {Answer("ok", 7, sm, JsonList(NewConcepts(mem, k)), JsonList(<<>>)) :
            sm \in {"", NthText(Len(mem.summaries) + 1)},
            k \in {0, 1, ConceptBlock}}

\* a call of extract_with_memory with the memory the caller keeps
ExtractWithMemory ==
    /\ pc = "idle"
    /\ Len(memory.summaries) < MaxSummaries
    /\ \E ans \in MemoryAnswers(memory), shown \in concepts_context(memory) :
         /\ last_request' = [summaries |-> memory_context(memory), concepts |-> shown,
                             before |-> memory, made |-> TRUE]
         /\ memory' = extract_with_memory(ans, memory).memory
    /\ UNCHANGED <<call, queue_log, processor, limiter, fetcher, context, exporter, batch,
                   recommendations, scraper, pc, params, max_pages, max_depth, mapping, frontier,
                   current_url, page_content, results, topicvars, history>>

InitRequest ==
    /\ CrawlIdle
    /\ ProcessorIdle
    /\ LimiterIdle
    /\ OthersIdle

NextRequest == ExtractWithMemory

SpecRequest == InitRequest /\ [][NextRequest]_vars

\* --------------------------------------------------------- batch_scrape
\* how one call of scrape ends: it returns the documents of the site, it
\* returns the one error record its own except clause builds, or an
\* exception leaves it (one raised before its try block, as by the URL check
\* or by an argument scrape does not accept)
ScrapeEnds == {"documents", "error_record", "raises"}

ScrapeValue(url, how) ==
    CASE how = "documents" -> <<[url |-> url, relevance_score |-> 8]>>
      [] how = "error_record" -> <<[url |-> url, error |-> "e"]>>
      [] OTHER -> <<>>

\* an except clause that leaves the URL out of the results
LeavesUrlOut(mapping_arg, url) == mapping_arg

\* except Exception: results[url] = []
OnScrapeError(mapping_arg, url) == Put(mapping_arg, url, <<>>)

\* one iteration of the for loop of batch_scrape
BatchScrapeUrl ==
    /\ batch_pc = "loop"
    /\ batch_next <= Len(urls_arg)
    /\ LET url == urls_arg[batch_next]
       IN \E how \in ScrapeEnds :
            /\ scrape_calls' = Append(scrape_calls, [url |-> url, how |-> how])
            /\ batch_results' = IF how = "raises"
                                THEN OnScrapeError(batch_results, url)
                                ELSE Put(batch_results, url, ScrapeValue(url, how))
    /\ batch_next' = batch_next + 1
    /\ UNCHANGED <<call, queue_log, processor, limiter, fetcher, context,
                   exporter, last_request, recommendations, scraper,
                   batch_pc, urls_arg, pc, params, max_pages, max_depth, mapping, frontier,
                   current_url, page_content, results, memory, topicvars, history>>

\* the list is exhausted: return results
BatchReturn ==
    /\ batch_pc = "loop"
    /\ batch_next > Len(urls_arg)
    /\ batch_pc' = "returned"
    /\ UNCHANGED <<call, queue_log, processor, limiter, fetcher, context,
                   exporter, last_request, recommendations, scraper,
                   urls_arg, batch_next, batch_results, scrape_calls,
                   pc, params, max_pages, max_depth, mapping, frontier,
                   current_url, page_content, results, memory, topicvars, history>>

InitBatch ==
    /\ CrawlIdle
    /\ ProcessorIdle
    /\ LimiterIdle
    /\ FetcherIdle
    /\ ContextIdle
    /\ ExporterIdle
    /\ last_request = NoRequest /\ recommendations = NoRecommendations /\ ScrapeIdle
    /\ batch_pc = "loop"
    /\ urls_arg \in SeqsUpTo({A, B, X}, MaxBatch)
    /\ batch_next = 1
    /\ batch_results = EmptyDict
    /\ scrape_calls = <<>>

NextBatch ==
    \/ BatchScrapeUrl
    \/ BatchReturn

SpecBatch == InitBatch /\ [][NextBatch]_vars

\* ------------------------------------------------- the rate limiter alone
\* the key of last_request_time: the URL's netloc
SharedKey(url) == "any"

DomainKey(url) == url.host

\* time passes between two requests
Tick ==
    /\ clock < MaxClock
    /\ clock' = clock + 1
    /\ UNCHANGED <<call, queue_log, processor, others, rate_limit,
                   last_request_time, map_last_request_time, request_log,
                   pc, params, max_pages, max_depth, mapping, frontier,
                   current_url, page_content, results, memory, topicvars, history>>

\* respect_rate_limits on a crawler with this rate_limit and last_request_time,
\* called at time now: the sleep taken, the time the request goes out, the
\* crawler's last_request_time afterwards, and the entry of the history
Paced(url, now, limit, times, late) ==
    LET domain == DomainKey(url)
        current_time == now
        known == domain \in DOMAIN times
        elapsed == IF known THEN current_time - times[domain] ELSE 0
        slept == IF known /\ elapsed < limit THEN limit - elapsed ELSE 0
        sent == now + slept + late
    IN [slept |-> slept, sent |-> sent, times |-> Put(times, domain, sent),
        entry |-> [host |-> url.host, arrived |-> current_time,
                   slept |-> slept, sent |-> sent]]

\* Crawler.respect_rate_limits(url): sleep for what is left of rate_limit
\* since the domain's last request, then record the time.  time.sleep may
\* last longer than asked, and the call itself takes time: late is that extra.
respect_rate_limits(url, late) ==
    LET r == Paced(url, clock, rate_limit, last_request_time, late)
    IN /\ r.sent <= MaxClock
       /\ clock' = r.sent
       /\ last_request_time' = r.times
       /\ request_log' = Append(request_log, r.entry)

\* a call of respect_rate_limits
RespectRateLimits ==
    /\ Len(request_log) < MaxRequests
    /\ \E url \in {A, B, X}, late \in 0..1 : respect_rate_limits(url, late)
    /\ UNCHANGED <<call, queue_log, processor, others, rate_limit, map_last_request_time,
                   pc, params, max_pages, max_depth, mapping, frontier,
                   current_url, page_content, results, memory, topicvars, history>>

InitLimiter ==
    /\ CrawlIdle
    /\ ProcessorIdle
    /\ OthersIdle
    /\ rate_limit \in 0..MaxRateLimit
    /\ clock = 0
    /\ last_request_time = EmptyDict
    /\ map_last_request_time = EmptyDict
    /\ request_log = <<>>

NextLimiter ==
    \/ Tick
    \/ RespectRateLimits

SpecLimiter == InitLimiter /\ [][NextLimiter]_vars

\* ------------------------------------------------------ fetch_page alone
\* a string urlparse refuses ("http://[::1": ValueError, Invalid IPv6 URL)
Malformed == Url("[::1", "", {}, "")

UrlParses(url) == url.host # "[::1"

\* what reading a site's robots.txt gives: nothing (the read raised), or a
\* parser with the paths it disallows
RobotsReads ==
    {[kind |-> "unreadable", disallow |-> {}]}
    \cup {[kind |-> "parser", disallow |-> paths] : paths \in {{}, {"a", "x"}}}

\* Crawler.can_fetch(url): the answer and robot_parsers after it.  read is
\* what robots.txt gives if this call reads it.
can_fetch(url, read) ==
    IF ~respect_robots
    THEN [allowed |-> TRUE, parsers |-> robot_parsers]
    ELSE IF url.host \in DOMAIN robot_parsers
    THEN [allowed |-> url.path \notin robot_parsers[url.host].disallow,
          parsers |-> robot_parsers]
    ELSE IF read.kind = "unreadable"
    THEN [allowed |-> TRUE, parsers |-> robot_parsers]
    ELSE [allowed |-> url.path \notin read.disallow,
          parsers |-> Put(robot_parsers, url.host, read)]

\* what the request and the parsing of its response do: the page comes back,
\* session.get or raise_for_status raises a RequestException, or anything
\* after it raises another exception
Responses == {"ok", "request_exception", "other_exception"}

FetchEnds(url, outcome, cause, requested) ==
    /\ last_fetch' = [url |-> url, outcome |-> outcome, cause |-> cause,
                   requested |-> requested]
    /\ fetch_count' = fetch_count + 1

\* a fetch_page that consults the rate limiter before the robots policy
NotAllowedAfterWaiting(url) ==
    /\ respect_rate_limits(url, 0)
    /\ FetchEnds(url, "RufusError", "robots", FALSE)

\* if not self.can_fetch(url): raise RufusError, before respect_rate_limits
\* and before the request
NotAllowed(url) ==
    /\ FetchEnds(url, "RufusError", "robots", FALSE)
    /\ UNCHANGED <<clock, last_request_time, request_log>>

\* Crawler.fetch_page(url); the time the call takes is left to Tick
FetchPage ==
    /\ fetch_count < MaxFetches
    /\ \E url \in {A, B, X, Malformed}, read \in RobotsReads,
          response \in Responses :
         IF ~UrlParses(url)
         THEN \* urlparse raises in can_fetch, or in respect_rate_limits
              /\ FetchEnds(url, "ValueError", "url", FALSE)
              /\ UNCHANGED <<robot_parsers, clock, last_request_time, request_log>>
         ELSE LET robots == can_fetch(url, read)
              IN /\ robot_parsers' = robots.parsers
                 /\ IF ~robots.allowed
                    THEN NotAllowed(url)
                    ELSE /\ respect_rate_limits(url, 0)
                         /\ CASE response = "ok" ->
                                   FetchEnds(url, "returned", "none", TRUE)
                              [] response = "request_exception" ->
                                   FetchEnds(url, "RufusError", "request", TRUE)
                              [] OTHER ->
                                   FetchEnds(url, "RufusError", "processing", TRUE)
    /\ UNCHANGED <<call, queue_log, processor, context, exporter, batch,
                   last_request, recommendations, scraper, rate_limit, map_last_request_time,
                   respect_robots, pc, params, max_pages, max_depth, mapping, frontier,
                   current_url, page_content, results, memory, topicvars, history>>

InitFetch ==
    /\ CrawlIdle
    /\ ProcessorIdle
    /\ rate_limit \in {0, MaxRateLimit}
    /\ clock = 0
    /\ last_request_time = EmptyDict
    /\ map_last_request_time = EmptyDict
    /\ request_log = <<>>
    /\ respect_robots \in BOOLEAN
    /\ robot_parsers = EmptyDict
    /\ last_fetch = NoFetch
    /\ fetch_count = 0
    /\ ContextIdle
    /\ ExporterIdle
    /\ BatchIdle
    /\ last_request = NoRequest /\ recommendations = NoRecommendations /\ ScrapeIdle

NextFetch ==
    \/ Tick
    \/ FetchPage

SpecFetch == InitFetch /\ [][NextFetch]_vars

\* ------------------------------- intelligent_scrape with its requests timed
\* The clock counts half seconds.  map_site_structure fetches with a Crawler
\* of its own, made with rate_limit=0.5 and an empty last_request_time.
map_rate_limit == 1

\* respect_rate_limits of the mapping's crawler
MapRespectRateLimits(url) ==
    LET r == Paced(url, clock, map_rate_limit, map_last_request_time, 0)
    IN /\ r.sent <= MaxClock
       /\ clock' = r.sent
       /\ map_last_request_time' = r.times
       /\ request_log' = Append(request_log, r.entry)
       /\ UNCHANGED <<rate_limit, last_request_time>>

\* respect_rate_limits of the crawler intelligent_scrape makes for the
\* traversal, with the client's rate_limit and an empty last_request_time
CrawlRespectRateLimits(url) ==
    /\ respect_rate_limits(url, 0)
    /\ UNCHANGED <<rate_limit, map_last_request_time>>

TimedMapStep == MapStepWith(MapRespectRateLimits)

TimedFetch == FetchWith(CrawlRespectRateLimits)

\* calls that can fetch two pages, without a memory
TimedCalls ==
    {c \in Calls({"intelligent_scrape"}, {FALSE}, 2) : c.max_depth >= 1 /\ ~c.use_memory}

InitTimed ==
    /\ InitCrawl(TimedCalls)
    /\ ProcessorIdle
    /\ OthersIdle
    /\ rate_limit \in 0..MaxRateLimit
    /\ clock = 0
    /\ last_request_time = EmptyDict
    /\ map_last_request_time = EmptyDict
    /\ request_log = <<>>

NextTimed ==
    \/ Tick
    \/ Begin
    \/ TimedMapStep
    \/ MapAnalysis
    \/ StartTraversal
    \/ Dequeue
    \/ TimedFetch
    \/ Analyze(FewAnswers)
    \/ Expand(LinkAnswers(FirstPicks(current_url), NoTopics))
    \/ Finish

SpecTimed == InitTimed /\ [][NextTimed]_vars

\* ------------------------------------------- the dynamic crawler's context
\* how DynamicCrawler.__enter__ goes: playwright is not installed, starting
\* it raises, launching the browser raises, or both succeed
Startups == {"import_error", "start_fails", "launch_fails", "ok"}

\* with DynamicCrawler(...) as crawler: __enter__.  An exception raised by
\* __enter__ leaves the with statement without a call of __exit__.
EnterContext ==
    /\ pc = "start"
    /\ call.dynamic
    /\ enter_count = 0
    /\ playwright = "none"
    /\ \E startup \in Startups :
         /\ playwright' = IF startup \in {"launch_fails", "ok"} THEN "started" ELSE "none"
         /\ browser' = IF startup = "ok" THEN "launched" ELSE "none"
         /\ enter_count' = IF startup = "ok" THEN 1 ELSE 0
         /\ pc' = IF startup = "ok" THEN "start" ELSE "raised"
    /\ UNCHANGED <<call, queue_log, processor, limiter, fetcher, exporter, batch,
                   last_request, recommendations, scraper, exit_count,
                   params, max_pages,
                   max_depth, mapping, frontier, current_url, page_content,
                   results, memory, topicvars, history>>

\* an exception that the loop's except clause does not catch
\* (KeyboardInterrupt) leaves _perform_intelligent_scrape
Interrupt ==
    /\ pc \in {"fetch", "analyze", "expand"}
    /\ call.dynamic
    /\ pc' = "interrupted"
    /\ UNCHANGED <<config, params, max_pages, max_depth, mapping, frontier,
                   current_url, page_content, results, memory, topicvars, history>>

\* the with block is left, by the return of _perform_intelligent_scrape or by
\* an exception: __exit__ closes the browser, then stops playwright;
\* browser.close() may raise, and then stop() is not reached
ExitContext ==
    /\ call.dynamic
    /\ exit_count = 0
    /\ \/ pc = "loop" /\ ~LoopCondition
       \/ pc = "interrupted"
    /\ exit_count' = exit_count + 1
    /\ \E close_raises \in BOOLEAN :
         /\ browser' = IF browser = "launched" /\ ~close_raises THEN "closed" ELSE browser
         /\ playwright' = IF playwright = "started" /\ ~close_raises
                          THEN "stopped" ELSE playwright
         /\ pc' = IF close_raises \/ pc = "interrupted" THEN "raised" ELSE pc
    /\ UNCHANGED <<call, queue_log, processor, limiter, fetcher, exporter, batch,
                   last_request, recommendations, scraper, enter_count,
                   params, max_pages,
                   max_depth, mapping, frontier, current_url, page_content,
                   results, memory, topicvars, history>>

\* intelligent_scrape with dynamic=True and no site mapping
InitDynamic ==
    InitWith({[c EXCEPT !.dynamic = TRUE] :
                c \in {k \in Calls({"intelligent_scrape"}, {FALSE}, 0) : ~k.map_first}})

NextDynamic ==
    \/ Begin
    \/ EnterContext
    \/ StartTraversal
    \/ Dequeue
    \/ Fetch
    \/ Analyze(FewAnswers)
    \/ Expand(LinkAnswers(FirstPicks(current_url), NoTopics))
    \/ Interrupt
    \/ ExitContext
    \/ Finish

SpecDynamic == InitDynamic /\ [][NextDynamic]_vars

\* ------------------------------------------------------------------ claims
Depth(u) == Get(pages_by_depth, u, 0)
Calls_(f, u) == Get(f, u, 0)
DocumentUrls == {results.documents[i].source_url : i \in 1..Len(results.documents)}
\* the URLs that entered the frontier
Frontiered == DOMAIN pages_by_depth

\* C1: in every state of the traversal the visited set holds at most max_pages
\* URLs and every visited URL has a depth of at most the max_depth that
\* intelligent_scrape was given; the site analysis never raises the limit.
C1_VisitedWithinBudgets ==
    /\ Cardinality(visited_urls) <= params.max_pages
    /\ \A u \in visited_urls : u \in Frontiered /\ pages_by_depth[u] <= params.max_depth
    /\ max_depth <= params.max_depth

\* the page budget stopped a crawl that had reached the depth limit
C1_Witness ==
    /\ pc = "done"
    /\ params.max_pages >= 2
    /\ Cardinality(visited_urls) = params.max_pages
    /\ links_to_visit # <<>>
    /\ params.max_depth >= 1
    /\ \E u \in visited_urls : pages_by_depth[u] = params.max_depth

\* C2: scrape(url, instructions, max_pages=N, max_depth=D) visits at most N
\* pages, none deeper than D, and with max_pages=1 fetches one page and no
\* more (the seed, unless the site analysis put the depth limit below it).
C2_ScrapeHonoursCallerBudgets ==
    call.api = "scrape" =>
        /\ Cardinality(visited_urls) <= call.max_pages
        /\ \A u \in visited_urls : Depth(u) <= call.max_depth
        /\ call.max_pages = 1 => Cardinality(DOMAIN fetch_calls) <= 1
        /\ (call.max_pages = 1 /\ pc = "done" /\ max_depth >= 0)
              => Cardinality(DOMAIN fetch_calls) = 1

\* C3 as claimed: over the whole call, the site mapping included, fetch_page
\* is invoked at most once for any URL.
C3_FetchedOncePerCall ==
    \A u \in DOMAIN fetch_calls \cup DOMAIN map_fetch_calls :
        Calls_(fetch_calls, u) + Calls_(map_fetch_calls, u) <= 1

\* C3 as amended: within the site mapping, and within the traversal,
\* fetch_page is invoked at most once for any URL.
C3_FetchedOncePerPhase ==
    /\ \A u \in DOMAIN fetch_calls : fetch_calls[u] <= 1
    /\ \A u \in DOMAIN map_fetch_calls : map_fetch_calls[u] <= 1

\* the mapping fetched B, whose links lead back to the visited seed (D is
\* queued from B alone), and fetched the seed once
C3_Witness ==
    /\ pc = "map"
    /\ D \in DOMAIN map_state.pages_by_depth
    /\ A \in map_state.visited
    /\ A \notin Range(map_state.links_to_visit)
    /\ map_fetch_calls[A] = 1
    /\ map_fetch_calls[B] = 1

\* C4: the frontier and the visited set hold normalized URLs, so no two URLs
\* with the same normalized form are queued or fetched in one crawl.
C4_VisitedNormalized ==
    /\ \A u \in visited_urls : normalize_url(u) = u
    /\ \A u, v \in Frontiered : normalize_url(u) = normalize_url(v) => u = v

\* C5: link prioritization runs only for pages above max_depth; every page
\* fetched is analysed, at any depth; from seed A with max_depth 1, D (linked
\* from B alone) never enters the frontier, and B and C, once queued, are
\* fetched when the page budget allows three pages.
C5_DepthCutoff ==
    /\ \A u \in prioritized : Depth(u) < max_depth
    /\ \A u \in DOMAIN fetch_calls \ fetch_failed :
          \/ u = current_url /\ pc \in {"analyze"}
          \/ u \in analysed
    /\ (call.url = A /\ max_depth = 1) =>
          /\ D \notin Frontiered
          /\ (pc = "done" /\ {B, C} \subseteq Frontiered /\ max_pages >= 3)
                => {B, C} \subseteq DOMAIN fetch_calls

\* A, B and C were fetched and analysed, only A was expanded
C5_Witness ==
    /\ pc = "done"
    /\ max_depth = 1
    /\ {A, B, C} \subseteq analysed
    /\ Depth(B) = max_depth
    /\ prioritized = {A}
    /\ D \notin Frontiered

\* C6: a URL whose fetch failed is visited and counted once, was fetched
\* once, has no analysis, no document and no link prioritization; the failing
\* step leaves queue, depths, memory and results as they were; and the loop
\* ends only when the queue is empty or the page budget is used up.
C6_FailedFetchState ==
    /\ \A u \in fetch_failed :
          /\ u \in visited_urls
          /\ fetch_calls[u] = 1
          /\ u \notin analysed
          /\ u \notin prioritized
          /\ u \notin DocumentUrls
    /\ results.stats.pages_visited = Cardinality(visited_urls)
    /\ pc = "done" => (links_to_visit = <<>> \/ Cardinality(visited_urls) >= max_pages)

C6_FailedFetchStep ==
    (pc = "fetch" /\ current_url \in fetch_failed') =>
        /\ links_to_visit' = links_to_visit
        /\ pages_by_depth' = pages_by_depth
        /\ visited_urls' = visited_urls
        /\ memory' = memory
        /\ results' = results

C6_FetchFailureSkipsPage == []C6_FailedFetchState /\ [][C6_FailedFetchStep]_vars

\* B's fetch failed and C, queued behind it, was fetched and analysed
C6_Witness ==
    /\ pc = "done"
    /\ B \in fetch_failed
    /\ C \in analysed
    /\ Cardinality(visited_urls) = 3
    /\ results.stats.pages_visited = 3

\* C7: a page whose relevance analysis failed gives no document and, when it
\* lies above max_depth, still has its links prioritized, with memory and
\* without.
C7_AnalysisFailureStillExpands ==
    LET u == last_analysis.url
    IN (last_analysis.failed /\ ~(pc = "expand" /\ current_url = u)) =>
          /\ u \notin DocumentUrls
          /\ Depth(u) < max_depth => u \in prioritized

\* C8: a failed extract_with_memory leaves the memory as it was before the call.
C8_FailedAnalysisKeepsMemory ==
    (call.use_memory /\ last_analysis.failed) => memory = last_analysis.before

\* KnowledgeMemory.absorb of the specification: the summary appended when it
\* is not empty, the concepts united, the contradictions appended
Absorb(mem, judgment) ==
    [summaries |-> IF judgment.summary = "" THEN mem.summaries
                   ELSE Append(mem.summaries, judgment.summary),
     key_concepts |-> mem.key_concepts \cup Range(judgment.new_concepts.items),
     entities |-> mem.entities,
     contradictions |-> mem.contradictions \o judgment.contradictions.items]

\* C9: with memory enabled, every fetched page is analysed, and after an
\* analysis that gave a judgment the memory is the memory before it with that
\* judgment absorbed once, whatever the score; a page scored 0 has no
\* document; a failed fetch leaves the memory unchanged.
C9_JudgmentState ==
    /\ \A u \in DOMAIN fetch_calls :
          \/ u \in fetch_failed /\ u \notin analysed
          \/ u \notin fetch_failed /\ u \in analysed
          \/ u = current_url /\ pc = "analyze"
    /\ (call.use_memory /\ last_analysis.url # NoUrl /\ ~last_analysis.failed) =>
          /\ memory = Absorb(last_analysis.before, last_analysis.answer)
          /\ last_analysis.answer.relevance_score = 0 =>
                last_analysis.url \notin DocumentUrls

C9_FetchStep == pc = "fetch" => memory' = memory

C9_JudgmentFoldedOnce == []C9_JudgmentState /\ [][C9_FetchStep]_vars

\* a page scored 0 brought a concept into the memory and no document
C9_Witness ==
    /\ call.use_memory
    /\ ~last_analysis.failed
    /\ last_analysis.answer.relevance_score = 0
    /\ last_analysis.answer.summary # ""
    /\ "c1" \in memory.key_concepts
    /\ "c1" \notin last_analysis.before.key_concepts
    /\ last_analysis.before.summaries # <<>>
    /\ last_analysis.url \notin DocumentUrls

\* C10: the discovered_topics returned are all the new_topics batches of the
\* crawl, concatenated, without duplicates, in first-seen order.
C10_TopicsReturnedDeduplicated ==
    pc = "done" => results.discovered_topics = Dedup(topic_batches)

\* the judgment the extractor returned for the latest analysis
LastJudgment ==
    IF call.use_memory
    THEN extract_with_memory(last_analysis.answer, last_analysis.before).content
    ELSE extract_relevant_content(last_analysis.answer)

\* C11: the page analysed last has a document if and only if its judgment was
\* returned with relevance_score > 0; no URL has two documents; every
\* document belongs to a visited URL and holds a score above 0; the processed
\* list returned holds one entry per document, none with a score <= 0.
C11_DocumentIffRelevant ==
    /\ last_analysis.url # NoUrl =>
          (last_analysis.url \in DocumentUrls <=>
              /\ ~LastJudgment.raised
              /\ LastJudgment.is_dict
              /\ LastJudgment.relevance_score > 0)
    /\ \A i, j \in 1..Len(results.documents) :
          results.documents[i].source_url = results.documents[j].source_url => i = j
    /\ DocumentUrls \subseteq visited_urls
    /\ \A i \in 1..Len(results.documents) :
          results.documents[i].content.relevance_score > 0
    /\ results.stats.pages_with_content = Len(results.documents)
    /\ pc = "done" =>
          LET p == results.processed_documents
          IN /\ \A i \in 1..Len(p) : p[i].relevance_score > 0
             /\ \A i, j \in 1..Len(p) : p[i].url = p[j].url => i = j
             /\ {p[i].url : i \in 1..Len(p)} = DocumentUrls

\* a crawl ended with a document, after a page scored below 0 gave none
C11_Witness ==
    /\ pc = "done"
    /\ Len(results.processed_documents) >= 1
    /\ last_analysis.answer.kind = "ok"
    /\ last_analysis.answer.relevance_score = -1
    /\ last_analysis.url \notin DocumentUrls
    /\ Cardinality(analysed) >= 2

\* a document whose relevance_score is there and is not 0
HasScore(doc) ==
    /\ "content" \in DOMAIN doc
    /\ "relevance_score" \in DOMAIN doc.content
    /\ doc.content.relevance_score # 0

\* the (url, score) pairs of the input documents that have a score
ScoredInput ==
    LET kept == SelectSeq(documents, HasScore)
    IN [i \in 1..Len(kept) |-> <<kept[i].source_url, kept[i].content.relevance_score>>]

ProcessedPairs ==
    [i \in 1..Len(processed) |-> <<processed[i].url, processed[i].relevance_score>>]

Count(seq, x) == Cardinality({i \in 1..Len(seq) : seq[i] = x})

\* C12: process_documents returns the input documents that have a score
\* other than 0, each once, in non-increasing score order, each with the keys
\* url, title, sections, key_points, relevance_score, summary, timestamp.
C12_ProcessFiltersAndSorts ==
    proc_pc = "processed" =>
        /\ Len(processed) = Len(ScoredInput)
        /\ \A x \in Range(ScoredInput) \cup Range(ProcessedPairs) :
              Count(ProcessedPairs, x) = Count(ScoredInput, x)
        /\ \A i, j \in 1..Len(processed) :
              i < j => processed[i].relevance_score >= processed[j].relevance_score
        /\ \A i \in 1..Len(processed) :
              DOMAIN processed[i] =
                  {"url", "title", "sections", "key_points", "relevance_score",
                   "summary", "timestamp"}

\* a document scored 0 was dropped and the two left changed places
C12_Witness ==
    /\ proc_pc = "processed"
    /\ Len(processed) = 2
    /\ Len(documents) = 3
    /\ "content" \in DOMAIN documents[1]
    /\ "relevance_score" \in DOMAIN documents[1].content
    /\ documents[1].content.relevance_score = 0
    /\ processed[1].relevance_score > processed[2].relevance_score
    /\ processed[1].url = documents[3].source_url
    /\ HasScore(documents[3])
    /\ processed[1].relevance_score = documents[3].content.relevance_score

\* the urls of the documents of score sc, in order
UrlsOfScore(pairs, sc) ==
    LET sel == SelectSeq(pairs, LAMBDA x : x[2] = sc)
    IN [i \in 1..Len(sel) |-> sel[i][1]]

\* C13: the documents of equal relevance_score come out of process_documents
\* in the order they went in.
C13_RankingStable ==
    proc_pc = "processed" =>
        \A sc \in {x[2] : x \in Range(ScoredInput)} :
            UrlsOfScore(ProcessedPairs, sc) = UrlsOfScore(ScoredInput, sc)

\* two documents of equal score kept their order in front of a document that
\* went in first
C13_Witness ==
    /\ proc_pc = "processed"
    /\ Len(processed) = 3
    /\ processed[1].relevance_score = processed[2].relevance_score
    /\ processed[1].url # processed[2].url
    /\ processed[3].relevance_score < processed[2].relevance_score
    /\ HasScore(documents[1])
    /\ documents[1].content.relevance_score = processed[3].relevance_score
    /\ documents[2].source_url = processed[1].url

\* how many times document i stands in the clusters returned
Memberships(i) ==
    LET hits == {<<nm, k>> \in (DOMAIN clusters) \X (1..MaxClusterDocs + 2) :
                    k <= Len(clusters[nm]) /\ clusters[nm][k] = documents[i]}
    IN Cardinality(hits)

\* C14: whatever assignment the analyzer returns, every input document
\* stands in exactly one cluster of the result, once.
C14_ClustersPartitionInput ==
    (proc_pc = "clustered" /\ cluster_answer.kind = "ok") =>
        \A i \in 1..Len(documents) : Memberships(i) = 1

\* the entries of the answer, and the indices they name
AnswerEntries == {cluster_answer.clusters[k] : k \in 1..Len(cluster_answer.clusters)}
AssignedIndices == UNION {Range(e.document_indices.items) : e \in AnswerEntries}
\* every entry has its name and a list of indices
AnswerWellFormed ==
    /\ cluster_answer.kind = "ok"
    /\ \A e \in AnswerEntries : e.has_name /\ e.document_indices.iterable
\* the number of documents the clusters hold
TotalClustered ==
    Cardinality({<<nm, k>> \in (DOMAIN clusters) \X (1..MaxClusterDocs + 2) :
                    k <= Len(clusters[nm])})

\* C15: a document whose index no cluster of the answer names is in the
\* cluster "Uncategorized", and with it the clusters hold every document:
\* as many as went in when the answer names no index twice.
C15_OmittedGoToUncategorized ==
    (proc_pc = "clustered" /\ AnswerWellFormed) =>
        /\ \A i \in 1..Len(documents) :
              (i - 1) \notin AssignedIndices =>
                  /\ "Uncategorized" \in DOMAIN clusters
                  /\ documents[i] \in Range(clusters["Uncategorized"])
        /\ (\A i \in 1..Len(documents) : Memberships(i) <= 1) =>
              TotalClustered = Len(documents)

\* the cluster decision failed: no key, a failed call, no JSON, no object, or
\* an entry that makes the assembly raise
DecisionFailed ==
    \/ cluster_answer.kind \in {"no_key", "api_error", "bad_json", "not_dict"}
    \/ /\ cluster_answer.kind = "ok"
       /\ \E e \in AnswerEntries : ~e.has_name \/ ~e.document_indices.iterable

\* C16: when the cluster decision fails, cluster_documents returns the single
\* cluster "All Documents" with the input documents in input order.
C16_FailedDecisionOneCluster ==
    (proc_pc = "clustered" /\ DecisionFailed) =>
        /\ DOMAIN clusters = {"All Documents"}
        /\ clusters["All Documents"] = documents

\* the assembly raised at the second cluster, after the first had taken a
\* document: all documents are in "All Documents"
C16_Witness ==
    /\ proc_pc = "clustered"
    /\ cluster_answer.kind = "ok"
    /\ Len(cluster_answer.clusters) = 2
    /\ cluster_answer.clusters[1].has_name
    /\ cluster_answer.clusters[1].document_indices.items = <<1>>
    /\ ~cluster_answer.clusters[2].has_name
    /\ Len(documents) = 3
    /\ clusters = [k \in {"All Documents"} |-> documents]

\* C17: intelligent_scrape never raises; the result it returns holds
\* stats.pages_visited, stats.pages_with_content and
\* stats.total_extraction_time, and no document when every fetch failed.
C17_AlwaysReturnsStats ==
    /\ pc # "raised"
    /\ pc = "done" =>
          /\ results.returned
          /\ {"pages_visited", "pages_with_content", "total_extraction_time"}
                \subseteq DOMAIN results.stats
          /\ DOMAIN fetch_calls \subseteq fetch_failed =>
                results.documents = <<>> /\ results.processed_documents = <<>>

\* C18: once the traversal has started it ends, and when it has ended the
\* frontier is empty or the visited set holds max_pages URLs.
C18_CrawlTerminates ==
    /\ (pc = "loop") ~> (pc = "done")
    /\ [](pc = "done" =>
            (links_to_visit = <<>> \/ Cardinality(visited_urls) >= max_pages))

\* the crawl ended on its page budget with URLs left in the frontier
C18_Witness ==
    /\ pc = "done"
    /\ links_to_visit # <<>>
    /\ Cardinality(visited_urls) = max_pages
    /\ max_pages >= 2
    /\ fetch_failed # {}

\* C19: every URL that enters the mapping queue has the seed's domain.
C19_MapQueueSameDomain ==
    \A u \in DOMAIN map_state.pages_by_depth : is_same_domain(call.url, u)

\* the request before request i to the same host, 0 when there is none
PreviousRequest(i) ==
    LET earlier == {j \in 1..(i - 1) : request_log[j].host = request_log[i].host}
    IN IF earlier = {} THEN 0
       ELSE CHOOSE j \in earlier : \A k \in earlier : k <= j

\* C20: a request to a domain without an earlier request does not sleep; a
\* request that comes less than rate_limit after the domain's previous one
\* sleeps for the remainder and one that comes later does not sleep, whatever
\* was requested of other domains; so two consecutive requests to one domain
\* are at least rate_limit apart.
C20_PerDomainRateLimit ==
    \A i \in 1..Len(request_log) :
        LET r == request_log[i]
            j == PreviousRequest(i)
        IN IF j = 0
           THEN r.slept = 0
           ELSE LET elapsed == r.arrived - request_log[j].sent
                IN /\ r.slept = (IF elapsed < rate_limit THEN rate_limit - elapsed ELSE 0)
                   /\ r.sent - request_log[j].sent >= rate_limit

\* a request to another domain went out at once between two requests to one
\* domain, the second of which had to sleep
C20_Witness ==
    /\ Len(request_log) >= 3
    /\ request_log[1].host = "site"
    /\ request_log[2].host = "other"
    /\ request_log[2].arrived = request_log[1].sent
    /\ request_log[2].slept = 0
    /\ request_log[3].host = "site"
    /\ request_log[3].slept > 0
    /\ request_log[3].sent - request_log[1].sent >= rate_limit

\* C21: every fetch_page call that does not return a page ends with a
\* RufusError; no exception of another type leaves fetch_page.
C21_FailuresAreRufusErrors ==
    last_fetch.outcome \in {"none", "returned", "RufusError"}

\* The failures the code converts: a robots denial, a request error and an
\* error while the response is processed all end with a RufusError.
C21_NamedFailuresConverted ==
    last_fetch.cause \in {"robots", "request", "processing"}
        => last_fetch.outcome = "RufusError"

\* C22: with dynamic=True, once the call has ended (returned or raised) no
\* started Playwright instance and no launched browser is left unreleased,
\* and a call that returned entered the context once and exited it once.
C22_BrowserReleasedOnEveryExit ==
    (call.dynamic /\ pc \in {"done", "raised"})
        => /\ playwright # "started"
           /\ browser # "launched"
           /\ pc = "done" => (enter_count = 1 /\ exit_count = 1)

\* The paths on which the release happens: a call that returned, and a call
\* left by an exception during the crawl with a browser that closes.
C22_ReleasedAfterNormalCrawl ==
    (call.dynamic /\ pc = "done")
        => /\ playwright = "stopped"
           /\ browser = "closed"
           /\ enter_count = 1
           /\ exit_count = 1

\* the value of a key in the i-th document, Absent if it has none
Field(docs, i, key) == DocGet(docs[i], key, Absent)

ColumnsOf(doc) ==
    {ColUrl, ColTitle, ColSummary, ColRelevanceScore, ColTimestamp}
    \cup {ColKeyPoint(n) : n \in 1..Len(ItemsOf(doc, "key_points"))}
    \cup {ColSectionTitle(n) : n \in 1..Len(ItemsOf(doc, "sections"))}
    \cup {ColSectionContent(n) : n \in 1..Len(ItemsOf(doc, "sections"))}

ExportedCsv == proc_pc = "exported" /\ exported.exporter = "csv" /\ documents # <<>>

\* C24: the columns of the CSV export are the union of the columns of all
\* documents of the batch, each once; every row has a field for every column,
\* the empty string where its document has no such key.
C24_CsvColumnsAreUnion ==
    ExportedCsv
        => LET header == exported.output.header
               rows == exported.output.rows
           IN /\ Range(header) = UNION {ColumnsOf(documents[i]) : i \in 1..Len(documents)}
              /\ Cardinality(Range(header)) = Len(header)
              /\ Len(rows) = Len(documents)
              /\ \A i \in 1..Len(rows) :
                    /\ Len(rows[i]) = Len(header)
                    /\ \A k \in 1..Len(header) :
                          header[k] \notin ColumnsOf(documents[i]) => rows[i][k] = <<>>

\* the column at place k of the header, if there is one
Place(header, col) == CHOOSE k \in 1..Len(header) : header[k] = col

\* a batch of two: the first document has one key point and one section, the
\* second two key points and none of the first's sections; its row is empty
\* under section_1_title and the first's row is empty under key_point_2
C24_Witness ==
    /\ ExportedCsv
    /\ Len(documents) = 2
    /\ Len(ItemsOf(documents[1], "key_points")) = 1
    /\ Len(ItemsOf(documents[1], "sections")) = 1
    /\ Len(ItemsOf(documents[2], "key_points")) = 2
    /\ Len(ItemsOf(documents[2], "sections")) = 0
    /\ LET header == exported.output.header
           rows == exported.output.rows
       IN /\ ColKeyPoint(2) \in Range(header)
          /\ ColSectionTitle(1) \in Range(header)
          /\ rows[1][Place(header, ColKeyPoint(2))] = <<>>
          /\ rows[2][Place(header, ColSectionTitle(1))] = <<>>
          /\ rows[1][Place(header, ColSectionTitle(1))] = <<"t">>

\* C25: the header row of the CSV export of a non-empty batch starts with
\* the url column.
C25_CsvHeaderStartsWithUrl ==
    ExportedCsv => Head(exported.output.header) = ColUrl

\* the spellings of the three format names among the formats called with
Spellings(name) ==
    CASE name = "json" -> {Json, <<"J", "S", "O", "N">>}
      [] name = "csv" -> {Csv, <<"C", "s", "v">>}
      [] name = "markdown" -> {Markdown, <<"M", "A", "R", "K", "D", "O", "W", "N">>}

\* C26: export_documents runs the exporter its format names, in whatever
\* case the name is written, and the JSON exporter for every other format.
C26_FormatSelectsExporter ==
    proc_pc = "exported"
        => /\ format_arg \in Spellings("json")
                => exported = [exporter |-> "json", output |-> export_json(documents)]
           /\ format_arg \in Spellings("csv")
                => exported = [exporter |-> "csv", output |-> export_csv(documents)]
           /\ format_arg \in Spellings("markdown")
                => exported = [exporter |-> "markdown",
                               output |-> export_markdown(documents)]
           /\ format_arg \notin UNION {Spellings(n) : n \in {"json", "csv", "markdown"}}
                => exported = [exporter |-> "json", output |-> export_json(documents)]

\* a non-empty batch was exported under the name MARKDOWN in capitals
C26_Witness ==
    /\ proc_pc = "exported"
    /\ format_arg = <<"M", "A", "R", "K", "D", "O", "W", "N">>
    /\ documents # <<>>
    /\ exported.exporter = "markdown"

\* a batch was exported under a name of no exporter and came out as JSON
C26_WitnessUnknownFormat ==
    /\ proc_pc = "exported"
    /\ format_arg = <<"x", "m", "l">>
    /\ documents # <<>>
    /\ exported.exporter = "json"

\* the last scrape call made for a URL
LastCallFor(url) ==
    scrape_calls[CHOOSE i \in 1..Len(scrape_calls) :
                    /\ scrape_calls[i].url = url
                    /\ \A j \in (i + 1)..Len(scrape_calls) : scrape_calls[j].url # url]

C28_RequestViewBounded ==
    last_request.made
        => LET before == last_request.before
               n == Len(before.summaries)
               shown == last_request.summaries
           IN /\ Len(shown) = IF n < 3 THEN n ELSE 3
              /\ \A i \in 1..Len(shown) : shown[i] = before.summaries[n - Len(shown) + i]
              /\ Cardinality(last_request.concepts) <= 20
              /\ last_request.concepts \subseteq before.key_concepts
              /\ Len(memory.summaries) >= n
              /\ SubSeq(memory.summaries, 1, n) = before.summaries
              /\ before.key_concepts \subseteq memory.key_concepts

\* the request was built from a memory of four summaries and 21 concepts: it
\* repeated the second to the fourth summary and 20 concepts, and the memory
\* still holds all of them
C28_Witness ==
    /\ last_request.made
    /\ Len(last_request.before.summaries) = 4
    /\ Cardinality(last_request.before.key_concepts) = 21
    /\ last_request.summaries = SubSeq(last_request.before.summaries, 2, 4)
    /\ Cardinality(last_request.concepts) = 20
    /\ Len(memory.summaries) >= 4
    /\ Cardinality(memory.key_concepts) >= 21

\* a list without repetitions
NoRepeats(seq) == \A i, j \in 1..Len(seq) : seq[i] = seq[j] => i = j

\* the traversal has set up its queue
Traversing == pc \in {"loop", "fetch", "analyze", "expand", "done"}

\* what holds of the frontier whatever max_depth is: no URL is queued twice,
\* no queued URL is visited, no URL was dequeued twice
FrontierDisjoint ==
    /\ NoRepeats(links_to_visit)
    /\ Range(links_to_visit) \cap visited_urls = {}
    /\ NoRepeats(dequeue_log)

\* C29: in every state of the traversal the queue holds no URL twice and no
\* visited URL, every queued URL has a depth of at most max_depth, and no
\* URL is dequeued more than once.
C29_FrontierBoundedByDepth ==
    Traversing
        => /\ FrontierDisjoint
           /\ \A u \in Range(links_to_visit) : Depth(u) <= max_depth

\* C29, amended: the depth bound holds of every queued URL that was
\* discovered on a page; the seed is queued at depth 0 whatever max_depth is.
C29_FrontierBoundedButSeed ==
    Traversing
        => /\ FrontierDisjoint
           /\ \A i \in 1..Len(links_to_visit) :
                 \/ Depth(links_to_visit[i]) <= max_depth
                 \/ /\ i = 1
                    /\ links_to_visit[i] = call.url
                    /\ dequeue_log = <<>>

\* A and B were dequeued and expanded; C and D wait in the queue, D at the
\* depth limit; B's link back to A was not queued again
C29_Witness ==
    /\ pc = "loop"
    /\ dequeue_log = <<A, B>>
    /\ prioritized = {A, B}
    /\ D \in Range(links_to_visit)
    /\ C \in Range(links_to_visit)
    /\ Depth(D) = max_depth
    /\ A \notin Range(links_to_visit)

\* the URLs a page-processing effect of the traversal exists for
Processed ==
    {u \in DOMAIN fetch_calls : fetch_calls[u] > 0}
    \cup fetch_failed \cup analysed \cup prioritized \cup DocumentUrls

\* whatever was fetched, analysed or saved is visited, and so is the URL of
\* the iteration under way
C30_ProcessedAreVisited ==
    /\ Processed \subseteq visited_urls
    /\ pc \in {"fetch", "analyze", "expand"} => current_url \in visited_urls

\* a step keeps every visited URL; a step that adds one pops it from the head
\* of the queue and does nothing else to it: no fetch, no analysis, no change
\* of the memory or of the documents
C30_VisitedAtDequeue ==
    /\ visited_urls \subseteq visited_urls'
    /\ \A u \in visited_urls' \ visited_urls :
          /\ pc = "loop"
          /\ links_to_visit # <<>>
          /\ u = Head(links_to_visit)
          /\ links_to_visit' = Tail(links_to_visit)
          /\ u \notin Processed
          /\ fetch_calls' = fetch_calls
          /\ analysed' = analysed
          /\ memory' = memory
          /\ results'.documents = results.documents

\* C30: a URL enters the visited set in the step that dequeues it, before it
\* is fetched, analysed, folded into the memory or saved as a document, and
\* is never taken out again, whether its fetch or its analysis fails or not.
C30_VisitedBeforeProcessing == []C30_ProcessedAreVisited /\ [][C30_VisitedAtDequeue]_vars

\* the crawl is over: B's fetch failed, the analysis of C failed, and both
\* are still visited
C30_Witness ==
    /\ pc = "done"
    /\ B \in fetch_failed
    /\ last_analysis.url = C
    /\ last_analysis.failed
    /\ {A, B, C} \subseteq visited_urls

\* the depths recorded for the URLs of a list, in the order of the list
DepthsOf(urls) == [i \in DOMAIN urls |-> Depth(urls[i])]

\* what was queued is what was popped followed by what still waits: the pops
\* follow the order of the appends; while a page is fetched, analysed or
\* expanded it is the URL popped last; the pages visited so far were popped
\* in an order of non-decreasing depth, the seed first at depth 0
C31_QueueIsFifo ==
    Traversing =>
        /\ enqueue_log = dequeue_log \o links_to_visit
        /\ pc \in {"fetch", "analyze", "expand"} =>
              /\ dequeue_log # <<>>
              /\ current_url = dequeue_log[Len(dequeue_log)]
        /\ enqueue_log[1] = call.url /\ Depth(call.url) = 0
        /\ \A i, j \in DOMAIN dequeue_log :
              (i < j /\ {dequeue_log[i], dequeue_log[j]} \subseteq visited_urls)
                  => Depth(dequeue_log[i]) <= Depth(dequeue_log[j])

\* a URL is popped only between two iterations, one URL at a time; a URL gets
\* its depth when it is queued, the depth of the page being expanded plus
\* one, and keeps it
C31_OnePageAtATime ==
    Traversing /\ Traversing' =>
        /\ dequeue_log' # dequeue_log =>
              /\ pc = "loop"
              /\ Len(dequeue_log') = Len(dequeue_log) + 1
              /\ pc' \in {"loop", "fetch"}
        /\ pc \in {"fetch", "analyze", "expand"} => dequeue_log' = dequeue_log
        /\ \A u \in DOMAIN pages_by_depth :
              u \in DOMAIN pages_by_depth' /\ pages_by_depth'[u] = pages_by_depth[u]
        /\ \A u \in DOMAIN pages_by_depth' \ DOMAIN pages_by_depth :
              /\ pc = "expand"
              /\ pages_by_depth'[u] = Depth(current_url) + 1

\* C31: URLs leave the queue of the traversal in the order they entered it,
\* one at a time, the fetch, analysis and expansion of a page being over
\* before the next URL is popped; the seed has depth 0, a discovered link the
\* depth of its discoverer plus one, and the depths of the pages visited one
\* after the other never decrease.
C31_FifoOnePageAtATime == []C31_QueueIsFifo /\ [][C31_OnePageAtATime]_vars

\* a finished crawl that popped three URLs of depths 0, 1 and 2 and left a
\* URL queued after them waiting
C31_Witness ==
    /\ pc = "done"
    /\ Len(dequeue_log) = 3
    /\ DepthsOf(dequeue_log) = <<0, 1, 2>>
    /\ Len(enqueue_log) = 4
    /\ links_to_visit # <<>>

\* C32: throughout one intelligent_scrape call, two consecutive page fetches
\* to one domain are at least the client's rate_limit apart: within the site
\* mapping, within the traversal, and from the one to the other.
C32_CallFetchesRateLimited ==
    \A i \in 1..Len(request_log) :
        LET j == PreviousRequest(i)
        IN j # 0 => request_log[i].sent - request_log[j].sent >= rate_limit

\* C33: every URL that entered the frontier, the seed apart, is an outbound
\* link of the fetched page it was discovered from, a page expanded one level
\* above it, whatever the link analyzer answered; no page added more than
\* max_links URLs.
C33_FrontierFromPageLinks ==
    Traversing =>
        /\ \A u \in Frontiered \ {call.url} :
              \E v \in prioritized :
                  /\ Depth(v) + 1 = Depth(u)
                  /\ u \in Range(SiteLinks(v))
        /\ \A v \in prioritized :
              Cardinality({u \in Frontiered \ {call.url} : Depth(u) = Depth(v) + 1})
                  <= max_links * Cardinality({w \in prioritized : Depth(w) = Depth(v)})

\* s is t, or t cut short
IsPrefix(s, t) == Len(s) <= Len(t) /\ SubSeq(t, 1, Len(s)) = s

\* what a step leaves of the memory: every concept, and the summaries and
\* the contradictions as the beginning of the new lists
C34_MemoryGrows ==
    /\ memory.key_concepts \subseteq memory'.key_concepts
    /\ IsPrefix(memory.summaries, memory'.summaries)
    /\ IsPrefix(memory.contradictions, memory'.contradictions)

\* C34: over the page analyses of one crawl no concept ever leaves
\* key_concepts, and summaries and contradictions change by appending only:
\* every earlier value is a subset (the set) or a prefix (the lists) of every
\* later one.
C34_MemoryMonotone == [][C34_MemoryGrows]_vars

\* the memory grew over two analyses, the second of which added to all three
\* fields
C34_Witness ==
    /\ last_analysis.before.summaries # <<>>
    /\ last_analysis.before.key_concepts # {}
    /\ last_analysis.before.contradictions # <<>>
    /\ Len(memory.summaries) > Len(last_analysis.before.summaries)
    /\ memory.key_concepts # last_analysis.before.key_concepts
    /\ Len(memory.contradictions) > Len(last_analysis.before.contradictions)

\* C35: cluster_documents returns at most max_clusters clusters, however
\* many the analyzer proposes.
C35_AtMostMaxClusters ==
    proc_pc = "clustered" => Cardinality(DOMAIN clusters) <= max_clusters

\* the exporter the extension of a file name stands for
ByExtension(filename) ==
    CASE EndsWith(filename, <<".", "j", "s", "o", "n">>) -> "json"
      [] EndsWith(filename, <<".", "c", "s", "v">>) -> "csv"
      [] EndsWith(filename, <<".", "m", "d">>) -> "markdown"
      [] OTHER -> "json"

\* C36: save(documents, filename) called without a format writes the format
\* the extension of filename stands for: .json json, .csv csv, .md markdown,
\* any other name json.
C36_SaveInfersFormat ==
    (proc_pc = "saved" /\ format_arg = <<>>) =>
        exported = export_documents(documents,
                                    CASE ByExtension(filename_arg) = "csv" -> Csv
                                      [] ByExtension(filename_arg) = "markdown" -> Markdown
                                      [] OTHER -> Json)

\* What holds: the extension decides for a client whose output_format is
\* empty, and otherwise the client's output_format does.
C36_SaveInfersWithoutDefault ==
    (proc_pc = "saved" /\ format_arg = <<>>) =>
        exported.exporter = IF output_format = <<>>
                            THEN ByExtension(filename_arg)
                            ELSE export_documents(documents, output_format).exporter

\* C37: _analyze_instruction returns a recommended_depth within 1..5 and
\* recommended_pages within 5..50, whatever the analyzer answers and however
\* the analysis fails; an instruction that is empty or shorter than 20
\* characters gives depth 2 and 10 pages, and the analyzer is not asked.
C37_RecommendationsClamped ==
    pc = "analyzed" =>
        /\ recommendations.result.recommended_depth \in 1..5
        /\ recommendations.result.recommended_pages \in 5..50
        /\ call.instruction_is_short =>
              /\ recommendations.result.recommended_depth = 2
              /\ recommendations.result.recommended_pages = 10
              /\ ~recommendations.result.consulted

\* an answer with a depth above the range and a number of pages that is no
\* number: the depth was cut to 5 and the pages kept their default
C37_Witness ==
    /\ pc = "analyzed"
    /\ ~call.instruction_is_short
    /\ recommendations.answer.ok
    /\ recommendations.answer.has_depth
    /\ recommendations.answer.depth_converts
    /\ recommendations.answer.depth > 5
    /\ recommendations.answer.has_pages
    /\ ~recommendations.answer.pages_converts
    /\ recommendations.result.recommended_depth = 5
    /\ recommendations.result.recommended_pages = 15

\* C38: when scrape is over, by a normal return, by the return of its error
\* path or by an exception, the client holds the crawler it held before the
\* call, also when respect_robots or rate_limit made scrape install a
\* temporary crawler.
C38_CrawlerRestored ==
    scrape_pc \in {"returned", "error_returned", "raised"} => crawler.id = "client"

\* What holds: the crawler is restored whenever scrape got as far as its try
\* statement.
C38_RestoredAfterTry ==
    (scrape_pc \in {"returned", "error_returned"}) => crawler = original_crawler

\* C39: at every step of the traversal stats.pages_visited is the size of
\* the visited set and stats.pages_with_content the number of documents
\* collected, so that pages_with_content <= pages_visited <= max_pages.
C39_StatsCountPages ==
    /\ results.stats.pages_visited = Cardinality(visited_urls)
    /\ results.stats.pages_with_content = Len(results.documents)
    /\ results.stats.pages_with_content <= results.stats.pages_visited
    /\ results.stats.pages_visited <= max_pages

\* a finished crawl that used its whole budget of three pages: one fetch
\* failed, one page gave a document and one gave none
C39_Witness ==
    /\ pc = "done"
    /\ max_pages = 3
    /\ results.stats.pages_visited = 3
    /\ Cardinality(fetch_failed) = 1
    /\ results.stats.pages_with_content = 1
    /\ Cardinality(analysed) = 2

\* a fetch_page call the robots policy denied
C40_Denied == fetch_count' # fetch_count /\ last_fetch'.cause = "robots"

\* the denied call sent no request and left the rate limiter as it was
C40_DeniedLeavesLimiter ==
    C40_Denied =>
        /\ ~last_fetch'.requested
        /\ request_log' = request_log
        /\ last_request_time' = last_request_time
        /\ clock' = clock

\* every request waited for what the requests before it made it wait, the
\* denied fetches between them counting for nothing
C40_SleepsFromRequestsOnly ==
    \A i \in 1..Len(request_log) :
        LET r == request_log[i]
            j == PreviousRequest(i)
            since == IF j = 0 THEN rate_limit ELSE r.arrived - request_log[j].sent
        IN r.slept = (IF since < rate_limit THEN rate_limit - since ELSE 0)

\* C40: a fetch_page call the robots policy denies issues no request for the
\* URL and leaves the domain's last-request time unchanged, so that it never
\* delays a later request.
C40_DeniedFetchCostsNothing ==
    []C40_SleepsFromRequestsOnly /\ [][C40_DeniedLeavesLimiter]_vars

\* a URL was denied right after a request to its domain, within the rate
\* limit: a recorded request would have made the next one wait
C40_Witness ==
    /\ last_fetch.cause = "robots"
    /\ ~last_fetch.requested
    /\ rate_limit > 0
    /\ last_fetch.url.host \in DOMAIN last_request_time
    /\ clock - last_request_time[last_fetch.url.host] < rate_limit
    /\ Len(request_log) = 1

====
